---- MODULE Spec2Model ----
(***************************************************************************)
(* A state-machine model of the Reddit evidence pipeline of the            *)
(* repository: the RedditClient (token cache, multi-strategy search,       *)
(* filter, dedup, sentiment buckets, narrative synthesis) and the          *)
(* narrative route that feeds its result to the external summarizer.       *)
(*                                                                         *)
(* Each asynchronous operation is cut at its await points: one action is   *)
(* the code that runs from the resumption of one await to the next await   *)
(* (JavaScript runs that segment to completion).                           *)
(*                                                                         *)
(* Clock: `now' is Date.now() in whole seconds.  The code's millisecond    *)
(* values are this clock times 1000; both sides of every comparison in     *)
(* the code carry the same factor, so it is dropped.                       *)
(*                                                                         *)
(* Text: a title or body is a sequence of word tokens; toLowerCase maps    *)
(* each token to its lower-case form, and includes(phrase) / a regular     *)
(* expression is a search for one of the token phrases it matches.         *)
(***************************************************************************)
EXTENDS Integers, Sequences, FiniteSets, TLC

VARIABLES
    accessToken,  \* RedditClient.accessToken (shared by all callers)
    tokenExpiry,  \* RedditClient.tokenExpiry
    now,          \* the clock
    pc,           \* pc[p]: the await a caller is suspended at
    local,        \* local[p]: the local variables of caller p's operation
    result,       \* result[p]: what caller p's last operation returned
    hist          \* hist[p]: history of caller p (requests issued, ...)

vars == <<accessToken, tokenExpiry, now, pc, local, result, hist>>

----------------------------------------------------------------------------
(* Bounds of the model *)

\* the clock advances at most this many seconds past StartTime
MaxTicks == 2
\* each caller of the token specification makes at most this many calls
MaxCalls == 2
\* at most this many search requests of one gather answer with a non-empty listing
MaxOk == 2
\* posts of a corpus handed to generateNarrative
MaxCorpus == 3
\* posts of an array handed to deduplicatePosts
MaxPosts == 3
\* the most positive and the most negative terms in a compared text
MaxTerms == 4
\* posts of one kind in a corpus handed to generateUniqueInsight
MaxMentions == 5

----------------------------------------------------------------------------
(* Values *)

Null == "null"
Undefined == "undefined"
Procs == {"c1", "c2"}

\* the prefix of `https://reddit.com${child.data.permalink}`
RedditBase == <<"https://reddit.com">>

NinetyDays == 90 * 24 * 60 * 60
StartTime == NinetyDays + 1000

\* JavaScript truthiness of a string-or-null value
Truthy(v) == v \notin {Null, Undefined, ""}

\* Response.ok of fetch
ResponseOk_Not5xx(status) == status < 500
ResponseOk(status) == status \in 200..299

Statuses == {200, 401, 503}

\* bodies the credential exchange can answer with ({access_token, expires_in})
Tokens == {"tokA", "tokB"}
Lifetimes == {1, 2}
TokenBodies ==
    [access_token : Tokens \cup {Undefined}, expires_in : Lifetimes]

\* the body the exchange answers with in the specifications of one gather
GatherTokenBodies == {[access_token |-> "tokA", expires_in |-> 2]}

NetworkError == [name |-> "TypeError", message |-> <<"fetch failed">>]
JsonError == [name |-> "SyntaxError", message |-> <<"Unexpected token">>]
AuthError(status) ==
    [name |-> "Error", message |-> <<"Reddit auth failed: ", status>>]

----------------------------------------------------------------------------
(* Sequences *)

MaxOf(S) == CHOOSE m \in S : \A x \in S : x <= m

\* the elements of s whose key (k[i] for s[i]) is m, in their order in s
SelectKey(s, k, m) ==
    LET pairs == [i \in 1..Len(s) |-> <<k[i], s[i]>>]
        sel == SelectSeq(pairs, LAMBDA x : x[1] = m)
    IN  [i \in 1..Len(sel) |-> sel[i][2]]

RECURSIVE SortDescFrom(_, _, _)
SortDescFrom(s, k, keys) ==
    IF keys = {} THEN <<>>
    ELSE LET m == MaxOf(keys)
         IN  SelectKey(s, k, m) \o SortDescFrom(s, k, keys \ {m})

\* Array.prototype.sort((a, b) => key(b) - key(a)): descending by key,
\* stable (elements of equal key keep their order); k[i] is the key of s[i]
SortDesc(s, k) == SortDescFrom(s, k, {k[i] : i \in 1..Len(s)})

\* Array.prototype.slice(0, n)
Slice0(s, n) == SubSeq(s, 1, IF Len(s) < n THEN Len(s) ELSE n)

----------------------------------------------------------------------------
(* Text *)

\* String.prototype.toLowerCase on one token
LowerTok(t) ==
    CASE t = "TSLA" -> "tsla"
      [] t = "Tsla" -> "tsla"
      [] t = "Tesla" -> "tesla"
      [] t = "Daily" -> "daily"
      [] t = "Discussion" -> "discussion"
      [] t = "Buy" -> "buy"
      [] t = "DD" -> "dd"
      [] t = "Puts" -> "puts"
      [] OTHER -> t

\* String.prototype.toLowerCase
ToLowerCase(text) == [i \in 1..Len(text) |-> LowerTok(text[i])]

\* String.prototype.includes: the phrase occurs in the text
Includes(text, phrase) ==
    \E i \in 1..(Len(text) - Len(phrase) + 1) :
        SubSeq(text, i, i + Len(phrase) - 1) = phrase

\* RegExp.prototype.test of a case-insensitive pattern, given as the set of
\* token phrases it matches
Test(phrases, text) ==
    LET lower == ToLowerCase(text)
    IN  \E ph \in phrases : Includes(lower, ph)

----------------------------------------------------------------------------
(* Documents *)

Company == "TSLA"

Engagement(post) == post.score + post.num_comments

EngagementKeys(posts) == [i \in 1..Len(posts) |-> Engagement(posts[i])]

\* posts.sort((a, b) => (b.score + b.num_comments) - (a.score + a.num_comments))
SortByEngagement(posts) == SortDesc(posts, EngagementKeys(posts))

Child(title, selftext, permalink, score, num_comments, subreddit, created_utc) ==
    [title |-> title, selftext |-> selftext, permalink |-> permalink,
     score |-> score, num_comments |-> num_comments,
     subreddit |-> subreddit, created_utc |-> created_utc]

Recent == StartTime - 10
OnBoundary == StartTime - NinetyDays
TooOld == StartTime - NinetyDays - 1

----------------------------------------------------------------------------
(* Relevance and recency filter of gatherCompanyData *)

GenericPhrases ==
    { <<"daily", "discussion">>, <<"weekend", "discussion">>,
      <<"what", "are", "your", "moves">>, <<"weekly", "thread">>,
      <<"rate", "my", "portfolio">> }

HasCompanyMention(child, company) ==
    LET title == ToLowerCase(child.title)
        text == ToLowerCase(child.selftext)
        companyLower == <<LowerTok(company)>>
    IN  Includes(title, companyLower) \/ Includes(text, companyLower)

IsGeneric(child) ==
    \E ph \in GenericPhrases : Includes(ToLowerCase(child.title), ph)

HasEngagement_And(child) == child.score >= 5 /\ child.num_comments >= 3
HasEngagement(child) == child.score >= 5 \/ child.num_comments >= 3

IsRecent(child, t) == child.created_utc >= t - NinetyDays

\* the predicate of .filter((child) => ...), evaluated at clock t
KeepChild(child, company, t) ==
    /\ HasCompanyMention(child, company)
    /\ ~IsGeneric(child)
    /\ HasEngagement(child)
    /\ IsRecent(child, t)

\* .map((child) => ({...})): the RedditPost built from a raw child
ToPost(child) == [child EXCEPT !.permalink = RedditBase \o @]

\* data.data.children.filter(...).map(...)
FilterChildren(children, company, t) ==
    LET kept == SelectSeq(children, LAMBDA c : KeepChild(c, company, t))
    IN  [i \in 1..Len(kept) |-> ToPost(kept[i])]

----------------------------------------------------------------------------
(* Deduplicator *)

\* RedditClient.deduplicatePosts: a post is kept unless its permalink was
\* seen, that is, unless an earlier post of the array carries it
deduplicatePosts_KeepLast(posts) ==
    LET indices == [i \in 1..Len(posts) |-> i]
        last == SelectSeq(indices,
                    LAMBDA i : \A j \in (i + 1)..Len(posts) :
                                   posts[j].permalink # posts[i].permalink)
    IN  [k \in 1..Len(last) |-> posts[last[k]]]
deduplicatePosts(posts) ==
    LET indices == [i \in 1..Len(posts) |-> i]
        first == SelectSeq(indices,
                     LAMBDA i : \A j \in 1..(i - 1) :
                                    posts[j].permalink # posts[i].permalink)
    IN  [k \in 1..Len(first) |-> posts[first[k]]]

----------------------------------------------------------------------------
(* Sentiment classifier: RedditClient.analyzePostSentiment *)

AnyWord == {"tsla", "$tsla", "it"}

\* sentimentPatterns, in catalog order
sentimentPatterns ==
    << [phrases |-> {<<"strong", "buy">>}, score |-> 3],
       [phrases |-> {<<c, "on", w>> : c \in {"call", "calls"}, w \in AnyWord}, score |-> 2],
       [phrases |-> {<<"loading", "up">>}, score |-> 2],
       [phrases |-> {<<"undervalued">>}, score |-> 2],
       [phrases |-> {<<"buy", "the", "dip">>}, score |-> 2],
       [phrases |-> {<<"to", "the", "moon">>}, score |-> 2],
       [phrases |-> {<<"earnings", "beat">>}, score |-> 2],
       [phrases |-> {<<"raised", "guidance">>}, score |-> 2],
       [phrases |-> {<<"buy">>}, score |-> 1],
       [phrases |-> {<<"long">>}, score |-> 1],
       [phrases |-> {<<"bullish">>}, score |-> 1],
       [phrases |-> {<<"upside">>}, score |-> 1],
       [phrases |-> {<<"growth">>}, score |-> 1],
       [phrases |-> {<<"strong", "sell">>}, score |-> -3],
       [phrases |-> {<<c, "on", w>> : c \in {"put", "puts"}, w \in AnyWord}, score |-> -2],
       [phrases |-> {<<"overvalued">>}, score |-> -2],
       [phrases |-> {<<"stay", "away">>}, score |-> -2],
       [phrases |-> {<<"bubble">>}, score |-> -2],
       [phrases |-> {<<"earnings", "miss">>}, score |-> -2],
       [phrases |-> {<<"lowered", "guidance">>}, score |-> -2],
       [phrases |-> {<<"sell">>}, score |-> -1],
       [phrases |-> {<<"short">>}, score |-> -1],
       [phrases |-> {<<"bearish">>}, score |-> -1],
       [phrases |-> {<<"downside">>}, score |-> -1],
       [phrases |-> {<<"declining">>}, score |-> -1] >>

Percents == {"15%", "10%"}
Numbers == {"20", "35"}

\* metricPatterns
metricPatterns ==
    << [phrases |-> {<<n, "growth">> : n \in Percents}, score |-> 1],
       [phrases |-> {<<n, "decline">> : n \in Percents}, score |-> -1],
       [phrases |-> {<<"p/e", n>> : n \in Numbers}
                    \cup {<<"p/e", "ratio", n>> : n \in Numbers}
                    \cup {<<"p/e", "of", n>> : n \in Numbers}
                    \cup {<<"p/e", "ratio", "of", n>> : n \in Numbers},
        score |-> 0] >>

RECURSIVE SumScores(_, _, _)
SumScores(patterns, text, i) ==
    IF i > Len(patterns) THEN 0
    ELSE (IF Test(patterns[i].phrases, text) THEN patterns[i].score ELSE 0)
         + SumScores(patterns, text, i + 1)

\* `${post.title} ${post.selftext}`
PostText(post) == post.title \o post.selftext

\* the score of analyzePostSentiment
analyzePostSentiment_Dedup(post) ==
    LET text == ToLowerCase(PostText(post))
        qualitative == SumScores(sentimentPatterns, text, 1)
    IN  IF qualitative # 0 THEN qualitative
        ELSE SumScores(metricPatterns, text, 1)
analyzePostSentiment(post) ==
    LET text == ToLowerCase(PostText(post))
    IN  SumScores(sentimentPatterns, text, 1) + SumScores(metricPatterns, text, 1)

----------------------------------------------------------------------------
(* Theme extractor: RedditClient.extractDetailedThemes *)

\* detailedThemePatterns, in catalog order
detailedThemePatterns ==
    << [theme |-> "Earnings Performance",
        phrases |-> {<<e, x>> : e \in {"earning", "earnings"},
                                x \in {"report", "result", "results", "beat", "miss"}}],
       [theme |-> "Revenue Trends",
        phrases |-> {<<"revenue", x>> : x \in {"growth", "decline", "beat", "miss"}}],
       [theme |-> "Forward Guidance",
        phrases |-> {<<"guidance", x>> : x \in {"raised", "lowered", "maintained"}}],
       [theme |-> "Profit Margins",
        phrases |-> {<<"margin", x>> : x \in {"expansion", "compression", "improvement"}}],
       [theme |-> "Cash Generation",
        phrases |-> {<<"cash", "flow">>, <<"free", "cash">>}],
       [theme |-> "P/E Valuation",
        phrases |-> {<<"p/e">>, <<"price", "earnings">>}],
       [theme |-> "Price Targets", phrases |-> {<<"price", "target">>}],
       [theme |-> "Valuation Views",
        phrases |-> {<<"undervalued">>, <<"overvalued">>}],
       [theme |-> "Market Capitalization", phrases |-> {<<"market", "cap">>}],
       [theme |-> "Product Innovation",
        phrases |-> {<<"product", x>> : x \in {"launch", "announcement", "innovation"}}],
       [theme |-> "AI/Technology",
        phrases |-> {<<"ai">>, <<"daily">>, <<"raised">>, <<"maintained">>,
                     <<"artificial", "intelligence">>, <<"machine", "learning">>}],
       [theme |-> "Market Expansion",
        phrases |-> {<<"expansion">>, <<"new", "market">>}],
       [theme |-> "User Growth",
        phrases |-> {<<"user", "growth">>, <<"customer", "acquisition">>}],
       [theme |-> "Competitive Position",
        phrases |-> {<<"competition">>, <<"competitor">>, <<"market", "share">>}],
       [theme |-> "Industry Position",
        phrases |-> {<<"industry", "leader">>, <<"industry", "trends">>}],
       [theme |-> "Market Disruption",
        phrases |-> {<<"disruption">>, <<"disrupt">>}],
       [theme |-> "Regulatory Issues",
        phrases |-> {<<"regulation">>, <<"regulatory">>, <<"government">>}],
       [theme |-> "Legal Concerns",
        phrases |-> {<<"lawsuit">>, <<"legal">>, <<"litigation">>}],
       [theme |-> "Financial Health",
        phrases |-> {<<"debt">>, <<"leverage">>, <<"balance", "sheet">>}],
       [theme |-> "Macro Risks", phrases |-> {<<"recession">>, <<"macro">>}],
       [theme |-> "Options Activity",
        phrases |-> {<<o, x>> : o \in {"option", "options"}, x \in {"flow", "activity"}}],
       [theme |-> "Institutional Flow",
        phrases |-> {<<"institutional", x>> : x \in {"buying", "selling"}}],
       [theme |-> "Insider Trading",
        phrases |-> {<<"insider", x>> : x \in {"buying", "selling"}}],
       [theme |-> "Short Interest",
        phrases |-> {<<"short", x>> : x \in {"interest", "squeeze"}}],
       [theme |-> "Technical Levels",
        phrases |-> {<<"support">>, <<"resistance">>}],
       [theme |-> "Moving Averages", phrases |-> {<<"moving", "average">>}],
       [theme |-> "Chart Patterns", phrases |-> {<<"breakout">>, <<"breakdown">>}] >>

\* the themes (catalog indices) one text matches
ThemesOf(text) ==
    {k \in 1..Len(detailedThemePatterns) : Test(detailedThemePatterns[k].phrases, text)}

\* a sequence with every element computed
Eager(s) == SelectSeq(s, LAMBDA x : TRUE)

\* extractDetailedThemes over all posts: the Map of theme counts.  The Map
\* keeps its keys in the order of first insertion: by first matching post,
\* then by catalog order.
\* [order |-> catalog indices in Map order, count |-> index -> count]
ThemeMap(posts) ==
    LET n == Len(posts)
        K == Len(detailedThemePatterns)
        hits == Eager([i \in 1..n |-> ThemesOf(PostText(posts[i]))])
        count == Eager([k \in 1..K |-> Cardinality({i \in 1..n : k \in hits[i]})])
        seenK == SelectSeq([k \in 1..K |-> k], LAMBDA k : count[k] > 0)
        firstPost(k) == CHOOSE i \in 1..n :
                            k \in hits[i] /\ \A j \in 1..(i - 1) : k \notin hits[j]
        \* insertion rank: earlier first post first, catalog order within a post
        key == [x \in 1..Len(seenK) |-> 0 - (firstPost(seenK[x]) * (K + 1) + seenK[x])]
    IN  [order |-> SortDesc(seenK, key), count |-> count]

\* Array.from(themes.entries()).sort((a, b) => b[1] - a[1]).slice(0, 5).map(...)
KeyThemes(posts) ==
    LET m == ThemeMap(posts)
        sorted == SortDesc(m.order, [i \in 1..Len(m.order) |-> m.count[m.order[i]]])
        top == Slice0(sorted, 5)
    IN  [i \in 1..Len(top) |-> detailedThemePatterns[top[i]].theme]

----------------------------------------------------------------------------
(* RedditClient.analyzeSentiment *)

BucketOf_NonStrict(score) ==
    IF score >= 1 THEN "bullish" ELSE IF score <= -1 THEN "bearish" ELSE "neutral"
BucketOf(score) ==
    IF score > 1 THEN "bullish" ELSE IF score < -1 THEN "bearish" ELSE "neutral"

Bucket_NeutralKeepsAll(posts, b) ==
    IF b = "neutral" THEN posts
    ELSE SelectSeq(posts, LAMBDA post : BucketOf(analyzePostSentiment(post)) = b)
Bucket(posts, b) ==
    SelectSeq(posts, LAMBDA post : BucketOf(analyzePostSentiment(post)) = b)

analyzeSentiment(posts) ==
    [bullishPosts |-> SortByEngagement(Bucket(posts, "bullish")),
     bearishPosts |-> SortByEngagement(Bucket(posts, "bearish")),
     neutralPosts |-> SortByEngagement(Bucket(posts, "neutral")),
     keyThemes |-> KeyThemes(posts),
     sources |-> Slice0([i \in 1..Len(posts) |-> posts[i].permalink], 10)]

----------------------------------------------------------------------------
(* Narrative synthesizer: RedditClient.generateNarrative *)

\* Math.round((n / total) * 100) for 0 <= n <= total, total > 0
RoundPercent(n, total) == (200 * n + total) \div (2 * total)

RECURSIVE SumEngagement(_, _)
\* posts.reduce((sum, p) => sum + p.score + p.num_comments, 0)
SumEngagement(posts, i) ==
    IF i > Len(posts) THEN 0 ELSE Engagement(posts[i]) + SumEngagement(posts, i + 1)

\* A bullet is one string; it is kept as the record of the values the
\* string is formatted from.
generateDetailedSentimentBullet(data, totalPosts) ==
    LET bullishPercent == RoundPercent(Len(data.bullishPosts), totalPosts)
        bearishPercent == RoundPercent(Len(data.bearishPosts), totalPosts)
        bullishEngagement == SumEngagement(data.bullishPosts, 1)
        bearishEngagement == SumEngagement(data.bearishPosts, 1)
        \* `bearishEngagement || 1`
        divisor == IF bearishEngagement = 0 THEN 1 ELSE bearishEngagement
    IN  [kind |-> "sentiment",
         lean |-> IF bullishPercent > bearishPercent + 10 THEN "bullish"
                  ELSE IF bearishPercent > bullishPercent + 10 THEN "bearish"
                  ELSE "split",
         bullishPercent |-> bullishPercent, bearishPercent |-> bearishPercent,
         totalPosts |-> totalPosts,
         engagementRatio |-> <<bullishEngagement, divisor>>]

\* extractTopicWithDetails: the topic whose patterns matched most often and
\* the lean of its posts.  Every pattern of a topic that matches a post adds
\* 1 to the topic's count and the post's sentiment (1 bullish, -1 bearish,
\* 0 neutral) to the topic's sentiment.  A pattern is the set of token
\* phrases it matches; the quoted detail and its metric are left out.
extractTopicWithDetails(sentimentData) ==
    LET Amounts == {"$2", "$1", "$200", "$150", "$180"}
        Words == {"tsla", "ford", "cybertruck"}
        Trend == {"growth", "decline"}
        detailPatterns ==
            << [topic |-> "Earnings",
                patterns |-> << {<<"earnings", n>> : n \in Amounts \cup Percents},
                                {<<"eps", n>> : n \in Amounts},
                                {<<"beat", "by", n>> : n \in Amounts \cup Percents},
                                {<<"miss", "by", n>> : n \in Amounts \cup Percents} >>],
               [topic |-> "Revenue",
                patterns |-> << {<<"revenue", n>> : n \in Amounts \cup Percents},
                                {<<"sales", t, n>> : t \in Trend, n \in Percents},
                                {<<"yoy", t, n>> : t \in Trend, n \in Percents} >>],
               [topic |-> "Valuation",
                patterns |-> << {<<"p/e", n>> : n \in Numbers},
                                {<<"valued", "at", "20x">>},
                                {<<"price", "target", n>> : n \in Amounts},
                                {<<"market", "cap", "$2b">>} >>],
               [topic |-> "Product",
                patterns |-> << {<<n, "users">> : n \in Numbers},
                                {<<"launched", w>> : w \in Words},
                                {<<"new", "product", w>> : w \in Words} >>],
               [topic |-> "Competition",
                patterns |-> << {<<"market", "share", n>> : n \in Percents},
                                {<<"vs", "competitor", w>> : w \in Words},
                                {<<"losing", "to", w>> : w \in Words} >>] >>
        allPosts == sentimentData.bullishPosts \o sentimentData.bearishPosts
                        \o sentimentData.neutralPosts
        n == Len(allPosts)
        T == Len(detailPatterns)
        postSentiment(i) ==
            IF i <= Len(sentimentData.bullishPosts) THEN 1
            ELSE IF i <= Len(sentimentData.bullishPosts) + Len(sentimentData.bearishPosts)
                 THEN -1 ELSE 0
        Hits(i, t) ==
            Cardinality({k \in 1..Len(detailPatterns[t].patterns) :
                            Test(detailPatterns[t].patterns[k], PostText(allPosts[i]))})
        RECURSIVE Count(_, _), Sentiment(_, _)
        Count(t, i) == IF i > n THEN 0 ELSE Hits(i, t) + Count(t, i + 1)
        Sentiment(t, i) ==
            IF i > n THEN 0 ELSE Hits(i, t) * postSentiment(i) + Sentiment(t, i + 1)
        seen == {t \in 1..T : Count(t, 1) > 0}
        \* the Map keeps its keys in the order of insertion; the sort is stable
        Inserted(t) == (CHOOSE i \in 1..n : Hits(i, t) > 0 /\ \A j \in 1..(i - 1) : Hits(j, t) = 0)
                           * T + t
        top == CHOOSE t \in seen :
                   \A u \in seen \ {t} :
                       \/ Count(t, 1) > Count(u, 1)
                       \/ Count(t, 1) = Count(u, 1) /\ Inserted(t) < Inserted(u)
    IN  IF seen = {} THEN [topic |-> "", sentiment |-> "mixed", count |-> 0]
        ELSE [topic |-> detailPatterns[top].topic,
              sentiment |-> IF Sentiment(top, 1) > 0 THEN "bullish"
                            ELSE IF Sentiment(top, 1) < 0 THEN "bearish" ELSE "mixed",
              count |-> Count(top, 1)]

\* one string about the most discussed topic, or the `theme unclear` string
generateSpecificTopicBullet(data) ==
    LET topicData == extractTopicWithDetails(data)
    IN  [kind |-> "topic", topic |-> topicData.topic, sentiment |-> topicData.sentiment]

\* one string quoting the engagement of data.bullishPosts[0]
generateDetailedBullishBullet(data) ==
    LET topPost == data.bullishPosts[1]
    IN  [kind |-> "bulls", upvotes |-> topPost.score, comments |-> topPost.num_comments]

\* one string quoting the engagement of data.bearishPosts[0]
generateDetailedBearishBullet(data) ==
    LET topPost == data.bearishPosts[1]
    IN  [kind |-> "bears", upvotes |-> topPost.score, comments |-> topPost.num_comments]

\* An insight is one string; it is kept as the record of its tier and of
\* the values it is formatted from.  The empty string is the record of tier
\* "none".
\* extractOptionInsight: posts with `$N call(s)` and with `$N put(s)`
extractOptionInsight_AtLeastTwo(data) ==
    LET allPosts == data.bullishPosts \o data.bearishPosts \o data.neutralPosts
        Strikes == {"$200", "$150"}
        Mentions(words) ==
            Cardinality({i \in 1..Len(allPosts) :
                Test({<<n, w>> : n \in Strikes, w \in words}, PostText(allPosts[i]))})
        callMentions == Mentions({"call", "calls"})
        putMentions == Mentions({"put", "puts"})
        divisor == IF putMentions = 0 THEN 1 ELSE putMentions
    IN  IF callMentions + putMentions >= 5
        THEN [kind |-> "insight", tier |-> "option",
              calls |-> callMentions, puts |-> putMentions,
              reading |-> IF callMentions >= 2 * divisor THEN "bullish positioning"
                          ELSE IF 2 * callMentions <= divisor THEN "hedging"
                          ELSE "uncertainty"]
        ELSE [kind |-> "insight", tier |-> "none"]
extractOptionInsight(data) ==
    LET allPosts == data.bullishPosts \o data.bearishPosts \o data.neutralPosts
        Strikes == {"$200", "$150"}
        Mentions(words) ==
            Cardinality({i \in 1..Len(allPosts) :
                Test({<<n, w>> : n \in Strikes, w \in words}, PostText(allPosts[i]))})
        callMentions == Mentions({"call", "calls"})
        putMentions == Mentions({"put", "puts"})
        \* `callMentions / (putMentions || 1)`, compared with 2 and with 0.5
        divisor == IF putMentions = 0 THEN 1 ELSE putMentions
    IN  IF callMentions + putMentions >= 5
        THEN [kind |-> "insight", tier |-> "option",
              calls |-> callMentions, puts |-> putMentions,
              reading |-> IF callMentions > 2 * divisor THEN "bullish positioning"
                          ELSE IF 2 * callMentions < divisor THEN "hedging"
                          ELSE "uncertainty"]
        ELSE [kind |-> "insight", tier |-> "none"]

\* the comparison, technical, institutional and momentum insights, given as
\* their tier: which competitor, level or institution is quoted does not
\* decide whether a sentence is produced
OtherInsight(data, tier) ==
    LET allPosts == data.bullishPosts \o data.bearishPosts \o data.neutralPosts
        text(i) == PostText(allPosts[i])
        Some(phrases) == \E i \in 1..Len(allPosts) : Test(phrases, text(i))
        \* the first `vs X`, `versus X` or `compared to X` of a post, X of
        \* more than 2 characters
        Long == {"Ford", "Rivian"}
        compared ==
            \E i \in 1..Len(allPosts) :
                LET at == {k \in 1..(Len(text(i)) - 1) :
                              \/ text(i)[k] \in {"vs", "vs.", "versus"}
                              \/ k > 1 /\ text(i)[k - 1] = "compared" /\ text(i)[k] = "to"}
                IN  at # {} /\ text(i)[(CHOOSE k \in at : \A j \in at : k <= j) + 1] \in Long
        Levels == {"$180", "180", "50"}
        technical ==
            Some({<<w, n>> : w \in {"support", "resistance", "target"}, n \in Levels}
                 \cup {<<w, "at", n>> : w \in {"support", "resistance"}, n \in Levels}
                 \cup {<<"target", "price", n>> : n \in Levels}
                 \cup {<<n, "day", "moving", "average">> : n \in Levels})
        institutional ==
            Some({<<w, v, "shares">> : w \in {"vanguard", "blackrock"},
                                      v \in {"bought", "purchased", "acquired", "sold",
                                              "dumped", "reduced"}}
                 \cup {<<w, v>> : w \in {"insider", "institutional"},
                                  v \in {"buying", "selling"}})
        dayAgo == now - 24 * 60 * 60
        directional == data.bullishPosts \o data.bearishPosts
        recentPosts == SelectSeq(directional, LAMBDA q : q.created_utc > dayAgo)
        recentBullish ==
            Len(SelectSeq(data.bullishPosts, LAMBDA q : q.created_utc > dayAgo))
        produced == [kind |-> "insight", tier |-> tier]
        nothing == [kind |-> "insight", tier |-> "none"]
    IN  CASE tier = "comparison" -> IF compared THEN produced ELSE nothing
          [] tier = "technical" -> IF technical THEN produced ELSE nothing
          [] tier = "institutional" -> IF institutional THEN produced ELSE nothing
          [] tier = "momentum" ->
               [kind |-> "insight", tier |-> tier,
                form |-> IF Len(recentPosts) >= 5 /\ 10 * recentBullish > 7 * Len(recentPosts)
                         THEN "building"
                         ELSE IF Len(recentPosts) >= 5
                                 /\ 10 * recentBullish < 3 * Len(recentPosts)
                              THEN "negative" ELSE "volume"]

\* one string: the first insight found, the momentum insight by default
generateUniqueInsight_TechnicalFirst(data) ==
    LET Try(tiers) ==
            LET RECURSIVE T(_)
                T(k) == IF k = Len(tiers) \/ tiers[k].tier # "none" THEN tiers[k]
                        ELSE T(k + 1)
            IN  T(1)
    IN  Try(<<extractOptionInsight(data), OtherInsight(data, "technical"),
              OtherInsight(data, "comparison"), OtherInsight(data, "institutional"),
              OtherInsight(data, "momentum")>>)
generateUniqueInsight(data) ==
    LET optionInsight == extractOptionInsight(data)
        comparisonInsight == OtherInsight(data, "comparison")
        technicalInsight == OtherInsight(data, "technical")
        institutionalInsight == OtherInsight(data, "institutional")
    IN  IF optionInsight.tier # "none" THEN optionInsight
        ELSE IF comparisonInsight.tier # "none" THEN comparisonInsight
        ELSE IF technicalInsight.tier # "none" THEN technicalInsight
        ELSE IF institutionalInsight.tier # "none" THEN institutionalInsight
        ELSE OtherInsight(data, "momentum")

LimitedDiscussion(company) == [kind |-> "limited", company |-> company]

\* `if (cond) bullets.push(bullet)`
PushIf(cond, bullet) == IF cond THEN <<bullet>> ELSE <<>>

\* data.bullishPosts.length + data.bearishPosts.length + data.neutralPosts.length
TotalPosts_NoNeutral(data) == Len(data.bullishPosts) + Len(data.bearishPosts)
TotalPosts(data) ==
    Len(data.bullishPosts) + Len(data.bearishPosts) + Len(data.neutralPosts)

generateNarrative(data, company) ==
    LET totalPosts == TotalPosts(data)
    IN  IF totalPosts = 0 THEN <<LimitedDiscussion(company)>>
        ELSE <<generateDetailedSentimentBullet(data, totalPosts)>>
             \o PushIf(Len(data.keyThemes) > 0, generateSpecificTopicBullet(data))
             \o PushIf(Len(data.bullishPosts) > 0, generateDetailedBullishBullet(data))
             \o PushIf(Len(data.bearishPosts) > 0, generateDetailedBearishBullet(data))
             \o <<generateUniqueInsight(data)>>

----------------------------------------------------------------------------
(* Token Manager: RedditClient.getAccessToken *)

\* the cache test of getAccessToken
GetAccessTokenHit_NoExpiry == Truthy(accessToken)
GetAccessTokenHit == Truthy(accessToken) /\ now < tokenExpiry

\* getAccessToken up to its first await, called by p whose locals are l:
\* either the cached credential is returned or the exchange is issued
GetAccessTokenCall(p, l) ==
    IF GetAccessTokenHit
    THEN /\ pc' = [pc EXCEPT ![p] = "token_return"]
         /\ local' = [local EXCEPT ![p] = [l EXCEPT !.token = accessToken]]
         /\ hist' = [hist EXCEPT ![p].calls = @ + 1]
    ELSE /\ pc' = [pc EXCEPT ![p] = "token_fetch"]
         /\ local' = [local EXCEPT ![p] = l]
         /\ hist' = [hist EXCEPT ![p].calls = @ + 1, ![p].exchanges = @ + 1]

\* await fetch(access_token endpoint) settles
TokenFetchReturn(p) ==
    /\ pc[p] = "token_fetch"
    /\ \/ /\ pc' = [pc EXCEPT ![p] = "token_throw"]
          /\ local' = [local EXCEPT ![p].error = NetworkError]
          /\ hist' = [hist EXCEPT ![p].lastStatus = 0, ![p].authFailed = TRUE]
       \/ \E status \in Statuses :
            IF ResponseOk(status)
            THEN /\ pc' = [pc EXCEPT ![p] = "token_json"]
                 /\ hist' = [hist EXCEPT ![p].lastStatus = status]
                 /\ UNCHANGED local
            ELSE /\ pc' = [pc EXCEPT ![p] = "token_throw"]
                 /\ local' = [local EXCEPT ![p].error = AuthError(status)]
                 /\ hist' = [hist EXCEPT ![p].lastStatus = status,
                                         ![p].authFailed = TRUE]
    /\ UNCHANGED <<accessToken, tokenExpiry, now, result>>

\* await response.json() settles: the credential and its expiry are stored
TokenJsonReturn_KeepsLaterExpiry(p, bodies) ==
    /\ pc[p] = "token_json"
    /\ \/ /\ pc' = [pc EXCEPT ![p] = "token_throw"]
          /\ local' = [local EXCEPT ![p].error = JsonError]
          /\ hist' = [hist EXCEPT ![p].authFailed = TRUE]
          /\ UNCHANGED <<accessToken, tokenExpiry>>
       \/ \E data \in bodies :
            /\ accessToken' = data.access_token
            /\ tokenExpiry' = IF tokenExpiry > now + data.expires_in
                              THEN tokenExpiry ELSE now + data.expires_in
            /\ pc' = [pc EXCEPT ![p] = "token_return"]
            /\ local' = [local EXCEPT ![p].token =
                            IF Truthy(data.access_token)
                            THEN data.access_token ELSE ""]
            /\ hist' = [hist EXCEPT ![p].response = data]
    /\ UNCHANGED <<now, result>>
TokenJsonReturn(p, bodies) ==
    /\ pc[p] = "token_json"
    /\ \/ /\ pc' = [pc EXCEPT ![p] = "token_throw"]
          /\ local' = [local EXCEPT ![p].error = JsonError]
          /\ hist' = [hist EXCEPT ![p].authFailed = TRUE]
          /\ UNCHANGED <<accessToken, tokenExpiry>>
       \/ \E data \in bodies :
            /\ accessToken' = data.access_token
            /\ tokenExpiry' = now + data.expires_in
            /\ pc' = [pc EXCEPT ![p] = "token_return"]
            /\ local' = [local EXCEPT ![p].token =
                            IF Truthy(data.access_token)
                            THEN data.access_token ELSE ""]
            /\ hist' = [hist EXCEPT ![p].response = data]
    /\ UNCHANGED <<now, result>>

\* time passes
Tick ==
    /\ now < StartTime + MaxTicks
    /\ now' = now + 1
    /\ UNCHANGED <<accessToken, tokenExpiry, pc, local, result, hist>>

----------------------------------------------------------------------------
(* Multi-strategy search executor: RedditClient.gatherCompanyData *)

STOCK_SUBREDDITS ==
    << "stocks", "wallstreetbets", "investing", "StockMarket", "options",
       "SecurityAnalysis", "valueinvesting", "pennystocks", "smallstreetbets",
       "thetagang", "dividends", "stockstobuy", "daytrading", "algotrading",
       "UKInvesting", "CanadianInvestor", "ASX_Bets", "IndiaInvestments",
       "EuropeInvesting" >>

searchStrategies(company) ==
    << [query |-> <<company>>, subreddits |-> SubSeq(STOCK_SUBREDDITS, 1, 5)],
       [query |-> <<company>>, subreddits |-> SubSeq(STOCK_SUBREDDITS, 1, 5)],
       [query |-> <<"\"", company, "\"">>, subreddits |-> SubSeq(STOCK_SUBREDDITS, 6, 10)],
       [query |-> <<company, "DD">>,
        subreddits |-> <<"stocks", "wallstreetbets", "investing">>],
       [query |-> <<company, "analysis">>,
        subreddits |-> <<"SecurityAnalysis", "valueinvesting">>],
       [query |-> <<company, "bullish">>, subreddits |-> <<"wallstreetbets", "options">>],
       [query |-> <<company, "bearish">>, subreddits |-> <<"stocks", "investing">>] >>

\* the locals of an operation that runs gatherCompanyData
GatherLocal(op, company) ==
    [op |-> op, company |-> company, token |-> Null, error |-> Null,
     allPosts |-> <<>>, si |-> 0, qi |-> 0, redditData |-> Null,
     narrativeBullets |-> <<>>, sources |-> <<>>, sourceNote |-> "none"]

GatherOps == {"GET", "searchCompany"}

\* `if (allPosts.length >= 200) break`
CapReached_Strict(allPosts) == Len(allPosts) > 200
CapReached(allPosts) == Len(allPosts) >= 200

\* deduplicate, sort by engagement, keep the top 150, classify
GatherResult_Unsorted(allPosts) ==
    analyzeSentiment(Slice0(deduplicatePosts(allPosts), 150))
GatherResult_TruncateFirst(allPosts) ==
    analyzeSentiment(deduplicatePosts(Slice0(SortByEngagement(allPosts), 150)))
GatherResult(allPosts) ==
    analyzeSentiment(Slice0(SortByEngagement(deduplicatePosts(allPosts)), 150))

\* the fetch of the (i, j) pair is issued
IssueSearch_Shared(p, l, h, i, j) ==
    /\ pc' = [pc EXCEPT ![p] = "search_fetch"]
    /\ local' = [q \in Procs |->
                   IF q = p THEN [l EXCEPT !.si = i, !.qi = j]
                   ELSE IF local[q].op = l.op
                        THEN [local[q] EXCEPT !.allPosts = l.allPosts]
                        ELSE local[q]]
    /\ hist' = [hist EXCEPT ![p] = [h EXCEPT !.searched = TRUE]]
IssueSearch(p, l, h, i, j) ==
    /\ pc' = [pc EXCEPT ![p] = "search_fetch"]
    /\ local' = [local EXCEPT ![p] = [l EXCEPT !.si = i, !.qi = j]]
    /\ hist' = [hist EXCEPT ![p] = [h EXCEPT !.searched = TRUE]]

\* the loops are left: gatherCompanyData returns its SentimentData
FinishGather(p, l, h) ==
    /\ pc' = [pc EXCEPT ![p] = "gather_return"]
    /\ local' = [local EXCEPT ![p] = [l EXCEPT !.redditData = GatherResult(l.allPosts)]]
    /\ hist' = [hist EXCEPT ![p] = h]

\* after the inner loop: the cap test of the outer loop, then the next strategy
AfterInnerLoop(p, l, h) ==
    IF CapReached(l.allPosts) THEN FinishGather(p, l, h)
    ELSE IF l.si < Len(searchStrategies(l.company))
         THEN IssueSearch(p, l, h, l.si + 1, 1)
         ELSE FinishGather(p, l, h)

\* the next subreddit of the current strategy, if any
NextIteration(p, l, h) ==
    IF l.qi < Len(searchStrategies(l.company)[l.si].subreddits)
    THEN IssueSearch(p, l, h, l.si, l.qi + 1)
    ELSE AfterInnerLoop(p, l, h)

\* after allPosts.push(...posts): the cap test of the inner loop
AfterPush_NoInnerCap(p, l, h) == NextIteration(p, l, h)
AfterPush(p, l, h) ==
    IF CapReached(l.allPosts) THEN AfterInnerLoop(p, l, h)
    ELSE NextIteration(p, l, h)

\* the catch of the search loop, and the skipped body of `if (response.ok)`:
\* nothing is pushed and the loop goes on
SearchFailed_Abort(p, l, h) ==
    FinishGather(p, [l EXCEPT !.allPosts = <<>>],
                 [h EXCEPT !.settled = @ + 1, !.lastOutcome = "failed"])
SearchFailed(p, l, h) ==
    NextIteration(p, l, [h EXCEPT !.settled = @ + 1, !.lastOutcome = "failed"])

\* await getAccessToken() resolved in gatherCompanyData: the first search
GatherAfterToken(p) ==
    /\ pc[p] = "token_return"
    /\ local[p].op \in GatherOps
    /\ IssueSearch(p, [local[p] EXCEPT !.allPosts = <<>>], hist[p], 1, 1)
    /\ UNCHANGED <<accessToken, tokenExpiry, now, result>>

\* await fetch(search.json) settles
SearchFetchReturn(p) ==
    /\ pc[p] = "search_fetch"
    /\ \/ SearchFailed(p, local[p], hist[p])
       \/ \E status \in Statuses :
            IF ResponseOk(status)
            THEN /\ pc' = [pc EXCEPT ![p] = "search_json"]
                 /\ UNCHANGED <<local, hist>>
            ELSE SearchFailed(p, local[p], hist[p])
    /\ UNCHANGED <<accessToken, tokenExpiry, now, result>>

\* await response.json() settles: the listing is filtered and pushed.
\* A body that is no JSON or no listing throws into the catch of the loop.
SearchJsonReturn(p, listings) ==
    /\ pc[p] = "search_json"
    /\ \/ SearchFailed(p, local[p], hist[p])
       \/ \E children \in listings :
            /\ children # <<>> => hist[p].oks < MaxOk
            /\ AfterPush(p,
                 [local[p] EXCEPT !.allPosts =
                     @ \o FilterChildren(children, local[p].company, now)],
                 [hist[p] EXCEPT !.settled = @ + 1,
                                 !.lastOutcome = "pushed",
                                 !.raw = @ + Len(children),
                                 !.oks = IF children # <<>> THEN @ + 1 ELSE @,
                                 !.lastRaw = children,
                                 !.lastNow = now,
                                 !.lastStart = Len(local[p].allPosts)])
    /\ UNCHANGED <<accessToken, tokenExpiry, now, result>>

----------------------------------------------------------------------------
(* RedditClient.searchCompany: a caller of gatherCompanyData *)

AllBuckets(data) == data.bullishPosts \o data.bearishPosts \o data.neutralPosts

DefaultSubreddits == {"stocks", "wallstreetbets", "investing"}

SearchCompanyStart(p) ==
    /\ pc[p] = "idle"
    /\ hist[p].calls = 0
    /\ GetAccessTokenCall(p, GatherLocal("searchCompany", Company))
    /\ UNCHANGED <<accessToken, tokenExpiry, now, result>>

\* await gatherCompanyData() resolved: filter to the subreddits, top 10
SearchCompanyAfterGather(p) ==
    /\ pc[p] = "gather_return"
    /\ local[p].op = "searchCompany"
    /\ LET allPosts == AllBuckets(local[p].redditData)
           filteredPosts == SelectSeq(allPosts,
                                LAMBDA post : post.subreddit \in DefaultSubreddits)
       IN  result' = [result EXCEPT ![p] =
                         Slice0(SortByEngagement(filteredPosts), 10)]
    /\ pc' = [pc EXCEPT ![p] = "done"]
    /\ UNCHANGED <<accessToken, tokenExpiry, now, local, hist>>

\* await gatherCompanyData() rejected (getAccessToken threw): it propagates
SearchCompanyTokenFailed(p) ==
    /\ pc[p] = "token_throw"
    /\ local[p].op = "searchCompany"
    /\ result' = [result EXCEPT ![p] = local[p].error]
    /\ pc' = [pc EXCEPT ![p] = "done"]
    /\ UNCHANGED <<accessToken, tokenExpiry, now, local, hist>>

----------------------------------------------------------------------------
(* RedditClient.getComments: a caller of getAccessToken *)

CommentListings ==
    { <<>>,
      << [kind |-> "t1", score |-> 3, permalink |-> <<"/c/1">>],
         [kind |-> "t1", score |-> 0, permalink |-> <<"/c/2">>],
         [kind |-> "more", score |-> 9, permalink |-> <<"/c/3">>],
         [kind |-> "t1", score |-> 7, permalink |-> <<"/c/4">>] >> }

\* the filter/map/sort/slice of getComments
TopComments(children) ==
    LET kept == SelectSeq(children,
                    LAMBDA c : c.kind = "t1" /\ c.score > 0)
        mapped == [i \in 1..Len(kept) |->
                     [score |-> kept[i].score,
                      permalink |-> RedditBase \o kept[i].permalink]]
    IN  Slice0(SortDesc(mapped, [i \in 1..Len(mapped) |-> mapped[i].score]), 5)

IdleLocal == [op |-> "none"]
CommentsLocal == [op |-> "getComments", token |-> Null, error |-> Null]

\* the record of what a process has seen: it is read by no action but in
\* the guards that bound the runs
HistInit ==
    [calls |-> 0, exchanges |-> 0, lastStatus |-> 0, authFailed |-> FALSE,
     searched |-> FALSE, settled |-> 0, lastOutcome |-> "none",
     raw |-> 0, oks |-> 0, lastRaw |-> <<>>, lastNow |-> 0, lastStart |-> 0,
     rich |-> 0, narrow |-> 0, richOutcome |-> "none", narrowOutcome |-> "none",
     cancelledAt |-> -1, response |-> [access_token |-> Undefined, expires_in |-> 0]]

\* getComments returns v
CommentsDone(p, v) ==
    /\ pc' = [pc EXCEPT ![p] = "idle"]
    /\ local' = [local EXCEPT ![p] = IdleLocal]
    /\ result' = [result EXCEPT ![p] = v]

CommentsStart(p) ==
    /\ pc[p] = "idle"
    /\ hist[p].calls < MaxCalls
    /\ GetAccessTokenCall(p, CommentsLocal)
    /\ UNCHANGED <<accessToken, tokenExpiry, now, result>>

\* await getAccessToken() resolved: the comments request is issued
CommentsAfterToken(p) ==
    /\ pc[p] = "token_return"
    /\ local[p].op = "getComments"
    /\ pc' = [pc EXCEPT ![p] = "comments_fetch"]
    /\ UNCHANGED <<accessToken, tokenExpiry, now, local, result, hist>>

\* await getAccessToken() rejected: the catch of getComments returns []
CommentsTokenFailed(p) ==
    /\ pc[p] = "token_throw"
    /\ local[p].op = "getComments"
    /\ CommentsDone(p, <<>>)
    /\ UNCHANGED <<accessToken, tokenExpiry, now, hist>>

CommentsFetchReturn(p) ==
    /\ pc[p] = "comments_fetch"
    /\ \/ CommentsDone(p, <<>>)
       \/ \E status \in Statuses :
            IF ResponseOk(status)
            THEN /\ pc' = [pc EXCEPT ![p] = "comments_json"]
                 /\ UNCHANGED <<local, result>>
            ELSE CommentsDone(p, <<>>)
    /\ UNCHANGED <<accessToken, tokenExpiry, now, hist>>

CommentsJsonReturn(p) ==
    /\ pc[p] = "comments_json"
    /\ \/ CommentsDone(p, <<>>)
       \/ \E children \in CommentListings : CommentsDone(p, TopComments(children))
    /\ UNCHANGED <<accessToken, tokenExpiry, now, hist>>

----------------------------------------------------------------------------
(* External summarizer adapter: parsing of the answer *)

\* the bullet marker of the summarizer format, U+2022
BulletMark == "<U+2022>"

IsSpace(c) == c \in {" ", "\t"}

\* String.prototype.split('\n'): content is a sequence of characters and
\* unbroken runs of text
RECURSIVE SplitFrom(_, _, _)
SplitFrom(content, i, line) ==
    IF i > Len(content) THEN <<line>>
    ELSE IF content[i] = "\n"
         THEN <<line>> \o SplitFrom(content, i + 1, <<>>)
         ELSE SplitFrom(content, i + 1, Append(line, content[i]))

SplitLines(content) == SplitFrom(content, 1, <<>>)

\* String.prototype.trim
RECURSIVE TrimStart(_)
TrimStart(line) ==
    IF line # <<>> /\ IsSpace(Head(line)) THEN TrimStart(Tail(line)) ELSE line

RECURSIVE TrimEnd(_)
TrimEnd(line) ==
    IF line # <<>> /\ IsSpace(line[Len(line)])
    THEN TrimEnd(SubSeq(line, 1, Len(line) - 1)) ELSE line

Trim(line) == TrimEnd(TrimStart(line))

IsBulletLine(line) == Trim(line) # <<>> /\ Head(Trim(line)) = BulletMark

\* content.split('\n').filter(line => line.trim().startsWith(BulletMark)).slice(0, 5)
ExtractBullets(content) ==
    Slice0(SelectSeq(SplitLines(content), IsBulletLine), 5)

\* the answers of the external summarizer: choices?.[0]?.message?.content
SummarizerContents ==
    { Undefined,
      <<>>,
      <<"Sorry, no data">>,
      <<"Summary:", "\n", BulletMark, "b1", "\n", " ", BulletMark, "b2", "\n", "-", "b3", "\n",
        "\n", BulletMark, "b4">>,
      <<BulletMark, "b1", "\n", BulletMark, "b2", "\n", BulletMark, "b3", "\n", BulletMark, "b4", "\n", BulletMark, "b5">>,
      <<BulletMark, "b1", "\n", "\n", BulletMark, "b2", "\n", BulletMark, "b3", "\n", BulletMark, "b4", "\n",
        BulletMark, "b5", "\n", BulletMark, "b6", "\n", BulletMark, "b7">> }

\* `content || ''`
ContentOrEmpty(content) == IF content = Undefined THEN <<>> ELSE content

StaticBullets(company) ==
    << <<BulletMark, " ", "Limited Reddit discussion found for", company>>,
       <<BulletMark, " ", "Low discussion volume">>,
       <<BulletMark, " ", "Consider checking alternative ticker symbols">>,
       <<BulletMark, " ", "Some companies may be discussed using nicknames">>,
       <<BulletMark, " ", "International stocks may have limited coverage">> >>

----------------------------------------------------------------------------
(* The narrative route: GET of app/api/narrative/route.ts *)

ErrorResponse(status, message) ==
    [status |-> status, bullets |-> <<>>, sourceNote |-> "none",
     sources |-> Null, error |-> message]

\* `if (narrativeBullets.length === 0)`
NeedsFinalFallback_Always(narrativeBullets) == TRUE
NeedsFinalFallback(narrativeBullets) == Len(narrativeBullets) = 0

\* from the final fallback to `return new Response(responseText, ...)`
RouteRespond(p, l) ==
    LET static == NeedsFinalFallback(l.narrativeBullets)
        bullets == IF static THEN StaticBullets(l.company) ELSE l.narrativeBullets
        note == IF static THEN "insufficient" ELSE l.sourceNote
    IN  /\ result' = [result EXCEPT ![p] =
                [status |-> 200, bullets |-> bullets, sourceNote |-> note,
                 sources |-> IF Len(l.sources) > 0 THEN l.sources ELSE Null,
                 error |-> Null]]
        /\ pc' = [pc EXCEPT ![p] = "done"]
        /\ local' = [local EXCEPT ![p] = l]

\* the outer catch: the 500 response
RouteFail(p, e) ==
    /\ result' = [result EXCEPT ![p] = ErrorResponse(500, e)]
    /\ pc' = [pc EXCEPT ![p] = "done"]
    /\ UNCHANGED local

\* the inner catch up to its await: the narrow reddit-scoped request is issued
RouteCatch_Rethrow(p, l, h) ==
    /\ pc' = [pc EXCEPT ![p] = "done"]
    /\ local' = [local EXCEPT ![p] = [l EXCEPT !.sourceNote = "rethrown"]]
    /\ hist' = [hist EXCEPT ![p] = h]
RouteCatch(p, l, h) ==
    /\ pc' = [pc EXCEPT ![p] = "narrow_fetch"]
    /\ local' = [local EXCEPT ![p] = l]
    /\ hist' = [hist EXCEPT ![p] = [h EXCEPT !.narrow = @ + 1]]

CompanyParams == {Null, Company}

\* GET up to its first await: validateEnv, the company parameter, and the
\* call of gatherCompanyData (which calls getAccessToken)
RouteStart(p) ==
    /\ pc[p] = "idle"
    /\ hist[p].calls = 0
    /\ \E envOk \in BOOLEAN, company \in CompanyParams :
         IF ~envOk
         THEN /\ RouteFail(p, [name |-> "Error", message |-> <<"Missing required environment variables">>])
              /\ hist' = [hist EXCEPT ![p].calls = @ + 1]
         ELSE IF company = Null
         THEN /\ result' = [result EXCEPT ![p] =
                     ErrorResponse(400, <<"Missing company or ticker parameter">>)]
              /\ pc' = [pc EXCEPT ![p] = "done"]
              /\ hist' = [hist EXCEPT ![p].calls = @ + 1]
              /\ UNCHANGED local
         ELSE /\ GetAccessTokenCall(p, GatherLocal("GET", company))
              /\ UNCHANGED result
    /\ UNCHANGED <<accessToken, tokenExpiry, now>>

\* await gatherCompanyData() rejected: the inner catch
RouteGatherFailed(p) ==
    /\ pc[p] = "token_throw"
    /\ local[p].op = "GET"
    /\ RouteCatch(p, local[p], hist[p])
    /\ UNCHANGED <<accessToken, tokenExpiry, now, result>>

\* await gatherCompanyData() resolved: no posts throws into the inner catch,
\* otherwise the rich request over all posts is issued
RouteAfterGather(p) ==
    /\ pc[p] = "gather_return"
    /\ local[p].op = "GET"
    /\ IF Len(AllBuckets(local[p].redditData)) = 0
       THEN RouteCatch(p, local[p], hist[p])
       ELSE /\ pc' = [pc EXCEPT ![p] = "rich_fetch"]
            /\ hist' = [hist EXCEPT ![p].rich = @ + 1]
            /\ UNCHANGED local
    /\ UNCHANGED <<accessToken, tokenExpiry, now, result>>

\* await fetch(PERPLEXITY_URL, rich body) settles
RichFetchReturn(p) ==
    /\ pc[p] = "rich_fetch"
    /\ \/ /\ RouteCatch(p, local[p], [hist[p] EXCEPT !.richOutcome = "throw"])
          /\ UNCHANGED result
       \/ \E status \in Statuses :
            IF ResponseOk(status)
            THEN /\ pc' = [pc EXCEPT ![p] = "rich_json"]
                 /\ UNCHANGED <<local, hist, result>>
            ELSE /\ RouteRespond(p, local[p])
                 /\ hist' = [hist EXCEPT ![p].richOutcome = "status"]
    /\ UNCHANGED <<accessToken, tokenExpiry, now>>

\* the citations of the rich branch: the ten most engaged posts
RichSources(allPosts) ==
    LET top == Slice0(SortByEngagement(allPosts), 10)
    IN  [i \in 1..Len(top) |-> top[i].permalink]

\* await perplexityResponse.json() settles
RichJsonReturn(p) ==
    /\ pc[p] = "rich_json"
    /\ \/ /\ RouteCatch(p, local[p], [hist[p] EXCEPT !.richOutcome = "throw"])
          /\ UNCHANGED result
       \/ \E c \in SummarizerContents :
            LET bullets == ExtractBullets(ContentOrEmpty(c))
            IN  /\ RouteRespond(p, [local[p] EXCEPT
                        !.narrativeBullets = bullets,
                        !.sources = RichSources(AllBuckets(local[p].redditData)),
                        !.sourceNote = "comprehensive"])
                /\ hist' = [hist EXCEPT ![p].richOutcome =
                               IF Len(bullets) = 0 THEN "empty" ELSE "bullets"]
    /\ UNCHANGED <<accessToken, tokenExpiry, now>>

\* await fetch(PERPLEXITY_URL, fallback body) settles; a rejection leaves
\* the inner catch and reaches the outer catch
NarrowFetchReturn(p) ==
    /\ pc[p] = "narrow_fetch"
    /\ \/ /\ RouteFail(p, NetworkError)
          /\ hist' = [hist EXCEPT ![p].narrowOutcome = "throw"]
       \/ \E status \in Statuses :
            IF ResponseOk(status)
            THEN /\ pc' = [pc EXCEPT ![p] = "narrow_json"]
                 /\ UNCHANGED <<local, hist, result>>
            ELSE /\ RouteRespond(p, local[p])
                 /\ hist' = [hist EXCEPT ![p].narrowOutcome = "status"]
    /\ UNCHANGED <<accessToken, tokenExpiry, now>>

\* await fallbackResponse.json() settles
NarrowJsonReturn(p) ==
    /\ pc[p] = "narrow_json"
    /\ \/ /\ RouteFail(p, JsonError)
          /\ hist' = [hist EXCEPT ![p].narrowOutcome = "throw"]
       \/ \E c \in SummarizerContents :
            LET bullets == ExtractBullets(ContentOrEmpty(c))
            IN  /\ RouteRespond(p, [local[p] EXCEPT
                        !.narrativeBullets = bullets,
                        !.sourceNote = "synthesized"])
                /\ hist' = [hist EXCEPT ![p].narrowOutcome =
                               IF Len(bullets) = 0 THEN "empty" ELSE "bullets"]
    /\ UNCHANGED <<accessToken, tokenExpiry, now>>

----------------------------------------------------------------------------
(* Search listings *)

M1 == Child(<<"TSLA", "strong", "buy">>, <<>>, <<"/p/1">>, 50, 10, "stocks", Recent)
M2 == Child(<<"Daily", "Discussion", "TSLA">>, <<>>, <<"/p/2">>, 100, 40,
            "wallstreetbets", Recent)
M3 == Child(<<"thoughts">>, <<"tsla", "overvalued">>, <<"/p/3">>, 4, 3, "investing", Recent)
M4 == Child(<<"Tesla", "news">>, <<>>, <<"/p/4">>, 30, 5, "stocks", Recent)
M5 == Child(<<"TSLA", "upside">>, <<>>, <<"/p/5">>, 4, 2, "options", Recent)
M6 == Child(<<"TSLA", "sell">>, <<>>, <<"/p/6">>, 20, 1, "stocks", TooOld)
M7 == Child(<<"Tsla", "growth">>, <<>>, <<"/p/7">>, 5, 0, "StockMarket", OnBoundary)
M8 == Child(<<"TSLA", "earnings", "beat">>, <<>>, <<"/p/1">>, 7, 1, "stocks", Recent)

\* the listings a search request of the route specification can answer with
SmallListings ==
    { <<>>, <<M1, M2, M3, M4>>, <<M5, M6, M7, M8>>, <<M2, M4, M5, M6>> }

\* posts of the corpora handed to generateNarrative: bullish, bearish and
\* neutral ones, each with and without a theme of the catalog
N1 == ToPost(Child(<<"TSLA", "strong", "buy">>, <<>>, <<"/n/1">>, 50, 10, "stocks", Recent))
N2 == ToPost(Child(<<"TSLA", "earnings", "beat">>, <<>>, <<"/n/2">>, 9, 4, "stocks", Recent))
N3 == ToPost(Child(<<"tsla", "overvalued">>, <<>>, <<"/n/3">>, 30, 3, "investing", Recent))
N4 == ToPost(Child(<<"TSLA", "bubble">>, <<>>, <<"/n/4">>, 6, 0, "options", Recent))
N5 == ToPost(Child(<<"TSLA", "news">>, <<>>, <<"/n/5">>, 5, 1, "stocks", Recent))
N6 == ToPost(Child(<<"TSLA", "lawsuit">>, <<>>, <<"/n/6">>, 12, 8, "stocks", Recent))

\* N1 .. N6, a bearish post with more downvotes than replies, and three
\* posts about earnings, one of them matching two patterns of the topic
NarrativePool ==
    {N1, N2, N3, N4, N5, N6,
     ToPost(Child(<<"TSLA", "overvalued">>, <<>>, <<"/n/7">>, -10, 4, "stocks", Recent)),
     ToPost(Child(<<"TSLA", "undervalued">>, <<"earnings", "15%">>, <<"/n/8">>, 20, 5,
                  "stocks", Recent)),
     ToPost(Child(<<"TSLA", "undervalued">>, <<"eps", "$2">>, <<"/n/9">>, 15, 5,
                  "stocks", Recent)),
     ToPost(Child(<<"TSLA", "overvalued">>, <<"earnings", "$2", "eps", "$1">>, <<"/n/10">>,
                  10, 5, "investing", Recent))}

\* the corpora: up to MaxCorpus different posts in any order
Corpora ==
    UNION { {c \in [1..n -> NarrativePool] : \A i, j \in 1..n : c[i] = c[j] => i = j}
            : n \in 0..MaxCorpus }

\* one page of 100 children
BigChild(tag, title, i) ==
    Child(title, <<>>, <<tag, i>>, 5 + (i % 7), i % 4,
          IF i % 2 = 0 THEN "stocks" ELSE "options", Recent)

BigTitle(i) ==
    IF i % 3 = 0 THEN <<"TSLA", "strong", "buy">>
    ELSE IF i % 3 = 1 THEN <<"TSLA", "overvalued">>
    ELSE <<"TSLA", "news">>

PageSize == 100

\* a page whose children all pass the filter, and one whose children never
\* mention the company
BigA == [i \in 1..PageSize |-> BigChild("/a/", BigTitle(i), i)]
BigOther == [i \in 1..PageSize |-> BigChild("/o/", <<"Tesla", "news">>, i)]
\* a page that repeats the first ten children of BigA and adds ninety others
BigB ==
    [i \in 1..PageSize |->
        IF i <= 10 THEN BigA[i] ELSE BigChild("/b/", BigTitle(i), i)]

\* the listings a search request of the cap specification can answer with
BigListings == { BigA, BigB, BigOther }

----------------------------------------------------------------------------
(* Specification of the token manager under concurrent callers *)

InitClient ==
    /\ accessToken = Null
    /\ tokenExpiry = 0
    /\ now = StartTime

InitToken ==
    /\ InitClient
    /\ pc = [p \in Procs |-> "idle"]
    /\ local = [p \in Procs |-> IdleLocal]
    /\ result = [p \in Procs |-> Null]
    /\ hist = [p \in Procs |-> HistInit]

NextToken ==
    \/ Tick
    \/ \E p \in Procs : CommentsStart(p)
    \/ \E p \in Procs : TokenFetchReturn(p)
    \/ \E p \in Procs : TokenJsonReturn(p, TokenBodies)
    \/ \E p \in Procs : CommentsAfterToken(p)
    \/ \E p \in Procs : CommentsTokenFailed(p)
    \/ \E p \in Procs : CommentsFetchReturn(p)
    \/ \E p \in Procs : CommentsJsonReturn(p)

SpecToken == InitToken /\ [][NextToken]_vars

----------------------------------------------------------------------------
(* Specification of one request to the narrative route, from a client     *)
(* whose credential cache is empty                                        *)

Handler == "c1"

InitRoute == InitToken

NextRoute ==
    \/ Tick
    \/ RouteStart(Handler)
    \/ TokenFetchReturn(Handler)
    \/ TokenJsonReturn(Handler, GatherTokenBodies)
    \/ RouteGatherFailed(Handler)
    \/ GatherAfterToken(Handler)
    \/ SearchFetchReturn(Handler)
    \/ SearchJsonReturn(Handler, SmallListings)
    \/ RouteAfterGather(Handler)
    \/ RichFetchReturn(Handler)
    \/ RichJsonReturn(Handler)
    \/ NarrowFetchReturn(Handler)
    \/ NarrowJsonReturn(Handler)

SpecRoute == InitRoute /\ [][NextRoute]_vars

----------------------------------------------------------------------------
(* Specification of one searchCompany call whose search requests answer   *)
(* with full pages                                                         *)

NextCap ==
    \/ SearchCompanyStart(Handler)
    \/ TokenFetchReturn(Handler)
    \/ TokenJsonReturn(Handler, GatherTokenBodies)
    \/ SearchCompanyTokenFailed(Handler)
    \/ GatherAfterToken(Handler)
    \/ SearchFetchReturn(Handler)
    \/ SearchJsonReturn(Handler, BigListings)
    \/ SearchCompanyAfterGather(Handler)

SpecCap == InitToken /\ [][NextCap]_vars

----------------------------------------------------------------------------
(* Specification of generateNarrative over the SentimentData of small     *)
(* corpora                                                                *)

InitNarrative ==
    /\ InitClient
    /\ pc = [p \in Procs |-> "idle"]
    /\ \E corpus \in Corpora :
         local = [p \in Procs |->
                    IF p = Handler
                    THEN [op |-> "generateNarrative", company |-> Company,
                          data |-> analyzeSentiment(corpus)]
                    ELSE IdleLocal]
    /\ result = [p \in Procs |-> Null]
    /\ hist = [p \in Procs |-> HistInit]

GenerateNarrativeCall(p) ==
    /\ pc[p] = "idle"
    /\ local[p].op = "generateNarrative"
    /\ result' = [result EXCEPT ![p] = generateNarrative(local[p].data, local[p].company)]
    /\ pc' = [pc EXCEPT ![p] = "done"]
    /\ UNCHANGED <<accessToken, tokenExpiry, now, local, hist>>

NextNarrative == GenerateNarrativeCall(Handler)

SpecNarrative == InitNarrative /\ [][NextNarrative]_vars

----------------------------------------------------------------------------
(* Properties of the narrative route (SpecRoute) *)

\* C1: whenever the rich summarizer request fails (it throws, it answers a
\* non-success status, or its answer has no bullet line), the narrow request
\* is attempted next, and the static bullets are returned only after the
\* narrow request has failed or yielded nothing.
C1_RichFailureTriesNarrow ==
    (pc[Handler] = "done" /\ hist[Handler].richOutcome \in {"throw", "status", "empty"})
        => /\ hist[Handler].narrow >= 1
           /\ result[Handler].sourceNote = "insufficient"
                  => hist[Handler].narrowOutcome \in {"status", "empty"}

\* C2: the chain rich -> narrow -> static only moves forward: the narrow
\* request is never issued once the rich tier has returned a bullet, the
\* static bullets are never returned when a tier produced a bullet, and no
\* tier is attempted twice in one request.
C2_ForwardOnly ==
    LET h == hist[Handler]
    IN  /\ h.rich <= 1 /\ h.narrow <= 1
        /\ h.richOutcome = "bullets" => h.narrow = 0
        /\ pc[Handler] \in {"narrow_fetch", "narrow_json"}
               => pc[Handler] \notin {"rich_fetch", "rich_json"}
                  /\ h.richOutcome \in {"none", "throw"}
        /\ pc[Handler] \in {"rich_fetch", "rich_json"} => h.narrow = 0
        /\ (pc[Handler] = "done" /\ result[Handler].status = 200)
               => /\ result[Handler].bullets = StaticBullets(Company)
                      => /\ h.richOutcome # "bullets"
                         /\ h.narrowOutcome # "bullets"
                  /\ h.richOutcome = "bullets" \/ h.narrowOutcome = "bullets"
                      => /\ result[Handler].bullets = local[Handler].narrativeBullets
                         /\ result[Handler].sourceNote # "insufficient"

\* the whole chain is walked: rich threw, narrow had no bullet, static returned
C2_ChainWalked ==
    /\ pc[Handler] = "done"
    /\ hist[Handler].richOutcome = "throw"
    /\ hist[Handler].narrowOutcome = "empty"
    /\ result[Handler].bullets = StaticBullets(Company)

\* C5 (as the code has it): a non-success status of the credential exchange
\* aborts the gather, no search request and no rich request is issued, and
\* the route answers through the narrow tier: a success response with
\* bullets unless the narrow request itself throws.
C5_AuthFailureFallsBack ==
    LET h == hist[Handler]
    IN  (h.lastStatus \in Statuses \ (200..299))
            => /\ ~h.searched
               /\ h.rich = 0
               /\ pc[Handler] \in {"token_throw", "narrow_fetch", "narrow_json", "done"}
               /\ pc[Handler] = "done"
                      => /\ h.narrow = 1
                         /\ h.narrowOutcome # "throw"
                                => /\ result[Handler].status = 200
                                   /\ Len(result[Handler].bullets) > 0

\* the exchange answered 401 and the response carries the bullets of the narrow tier
C5_AuthFailureAnswered ==
    /\ pc[Handler] = "done"
    /\ hist[Handler].lastStatus = 401
    /\ hist[Handler].narrowOutcome = "bullets"
    /\ result[Handler].status = 200
    /\ Len(result[Handler].bullets) = 5

\* C5: a non-success status of the credential exchange is fatal for the
\* request: an error is returned, no summarizer tier is run and no bullets
\* are returned.
C5_AuthFailureFatal ==
    (pc[Handler] = "done" /\ hist[Handler].lastStatus \in Statuses \ (200..299))
        => /\ result[Handler].status # 200
           /\ result[Handler].bullets = <<>>
           /\ hist[Handler].rich = 0 /\ hist[Handler].narrow = 0

\* C6: whatever recoverable failures happen, a request with a company returns
\* a success response with bullets; an error response needs a failed
\* credential exchange.
C6_AlwaysBullets ==
    (pc[Handler] = "done" /\ local[Handler].op = "GET" /\ ~hist[Handler].authFailed)
        => /\ result[Handler].status = 200
           /\ Len(result[Handler].bullets) > 0

\* C9: a search request that fails (it throws, answers a non-success status,
\* or its body cannot be read) pushes nothing and does not abort the gather:
\* the next (query, subreddit) pair is requested, or, after the last pair,
\* the gather returns the result of what was accumulated.
C9_FailedSearchSkipped ==
    [][ (/\ pc[Handler] \in {"search_fetch", "search_json"}
         /\ hist'[Handler].settled = hist[Handler].settled + 1
         /\ hist'[Handler].lastOutcome = "failed")
        => LET l == local[Handler]
               strategies == searchStrategies(l.company)
               lastPair == /\ l.si = Len(strategies)
                           /\ l.qi = Len(strategies[l.si].subreddits)
           IN  /\ local'[Handler].allPosts = l.allPosts
               /\ IF lastPair
                  THEN /\ pc'[Handler] = "gather_return"
                       /\ local'[Handler].redditData = GatherResult(l.allPosts)
                  ELSE /\ pc'[Handler] = "search_fetch"
                       /\ <<local'[Handler].si, local'[Handler].qi>> =
                              IF l.qi < Len(strategies[l.si].subreddits)
                              THEN <<l.si, l.qi + 1>> ELSE <<l.si + 1, 1>> ]_vars

\* the last request of the gather failed and the gather returned with the
\* posts of earlier requests
C9_GatherSurvivesFailure ==
    /\ pc[Handler] = "gather_return"
    /\ hist[Handler].lastOutcome = "failed"
    /\ hist[Handler].settled = 24
    /\ Len(AllBuckets(local[Handler].redditData)) > 0

\* C10: a raw candidate is kept if and only if the company occurs in its
\* title or body whatever the case, its title holds no generic-thread phrase,
\* it has 5 upvotes or 3 replies, and it was created no more than 90 days
\* before the filter ran; what fails one of the four is in no gather output.
C10_FilterFourPredicates ==
    LET h == hist[Handler]
        l == local[Handler]
        mentions(c) == \/ \E i \in 1..Len(c.title) :
                              c.title[i] \in {"TSLA", "Tsla", "tsla"}
                       \/ \E j \in 1..Len(c.selftext) :
                              c.selftext[j] \in {"TSLA", "Tsla", "tsla"}
        generic(c) == \E i \in 1..(Len(c.title) - 1) :
                          /\ c.title[i] \in {"Daily", "daily"}
                          /\ c.title[i + 1] \in {"Discussion", "discussion"}
        engaged(c) == ~(c.score < 5 /\ c.num_comments < 3)
        kept(c, t) == /\ mentions(c) /\ ~generic(c) /\ engaged(c)
                      /\ t - c.created_utc <= NinetyDays
        pushed == SubSeq(l.allPosts, h.lastStart + 1, Len(l.allPosts))
        survivors == SelectSeq(h.lastRaw, LAMBDA c : kept(c, h.lastNow))
    IN  /\ h.raw > 0
            => /\ Len(pushed) = Len(survivors)
               /\ \A i \in 1..Len(pushed) :
                      pushed[i] = [survivors[i] EXCEPT !.permalink = RedditBase \o @]
        /\ (pc[Handler] \in {"gather_return", "rich_fetch", "rich_json"})
            => \A b \in {"bullishPosts", "bearishPosts", "neutralPosts"} :
                   \A i \in 1..Len(l.redditData[b]) :
                       kept(l.redditData[b][i], l.redditData[b][i].created_utc + NinetyDays)
                       /\ l.redditData[b][i].created_utc >= StartTime - NinetyDays

\* a listing was filtered after the clock moved: the child on the 90-day
\* boundary, the old one and the one with 4 upvotes and 2 replies are
\* dropped, the fourth is kept
C10_FilterApplied ==
    /\ hist[Handler].lastRaw = <<M5, M6, M7, M8>>
    /\ hist[Handler].lastNow = StartTime + 1
    /\ Len(local[Handler].allPosts) = hist[Handler].lastStart + 1

----------------------------------------------------------------------------
(* Properties of generateNarrative (SpecNarrative) *)

----------------------------------------------------------------------------
(* Properties of the search cap (SpecCap) *)

\* C4 (as the code has it): the cap counts the posts that passed the filter:
\* once 200 of them are accumulated no further search request is issued and
\* the later strategies are not executed.
C4_CapOnKeptPosts ==
    /\ pc[Handler] \in {"search_fetch", "search_json"}
           => Len(local[Handler].allPosts) < 200
    /\ (pc[Handler] = "gather_return" /\ hist[Handler].settled < 24)
           => Len(local[Handler].allPosts) >= 200

\* the gather returned at the cap with strategies left
C4_CapReached ==
    /\ pc[Handler] = "gather_return"
    /\ Len(local[Handler].allPosts) >= 200
    /\ local[Handler].si < Len(searchStrategies(Company))

\* C4: once the raw candidates returned so far, counted before the filter,
\* reach 200, no further search request is issued.
C4_CapOnRawCandidates ==
    pc[Handler] \in {"search_fetch", "search_json"} => hist[Handler].raw < 200

----------------------------------------------------------------------------
(* Properties of the token manager (SpecToken) *)

\* C7: getAccessToken issues the credential exchange if and only if no
\* credential is cached or the clock is not before the cached expiry;
\* otherwise it returns the cached credential and leaves the cache as it is.
C7_ExchangeIffStale ==
    [][ \A p \in Procs :
          (pc[p] = "idle" /\ pc'[p] # "idle")
          => LET stale == accessToken \in {Null, Undefined} \/ ~(now < tokenExpiry)
             IN  /\ stale <=> pc'[p] = "token_fetch"
                 /\ hist'[p].exchanges = hist[p].exchanges + (IF stale THEN 1 ELSE 0)
                 /\ ~stale => /\ pc'[p] = "token_return"
                              /\ local'[p].token = accessToken
                 /\ accessToken' = accessToken
                 /\ tokenExpiry' = tokenExpiry ]_vars

\* a caller that never issued an exchange holds the credential of the cache
C7_ServedFromCache ==
    \E p \in Procs :
        /\ pc[p] = "token_return"
        /\ hist[p].exchanges = 0
        /\ local[p].token = accessToken
        /\ now < tokenExpiry

\* C8: when the credential exchange answers a non-success status,
\* getAccessToken throws an error that carries the status, and no step of
\* the call writes the cached credential or the cached expiry.
C8_NonSuccessExchange ==
    [][ \A p \in Procs :
          /\ (pc[p] = "token_fetch" /\ pc'[p] # "token_fetch"
              /\ hist'[p].lastStatus \in Statuses \ (200..299))
             => /\ pc'[p] = "token_throw"
                /\ local'[p].error.message = <<"Reddit auth failed: ", hist'[p].lastStatus>>
                /\ accessToken' = accessToken
                /\ tokenExpiry' = tokenExpiry
          /\ (pc[p] = "idle" /\ pc'[p] = "token_fetch")
             => accessToken' = accessToken /\ tokenExpiry' = tokenExpiry ]_vars

\* the exchange of an expired credential answered 401: the old credential
\* and its expiry are still cached
C8_StaleCredentialKept ==
    \E p \in Procs :
        /\ pc[p] = "token_throw"
        /\ hist[p].lastStatus = 401
        /\ accessToken \in Tokens
        /\ ~(now < tokenExpiry)

----------------------------------------------------------------------------
(* Specification of deduplicatePosts over small arrays, applied once and   *)
(* then to its own result                                                  *)

\* posts of three permalinks, two of them carried by two different posts
DedupePool ==
    {ToPost(M1), ToPost(M8), ToPost(M3), [ToPost(M3) EXCEPT !.score = 40], ToPost(M5)}

PostArrays == UNION { [1..n -> DedupePool] : n \in 0..MaxPosts }

InitDedupe ==
    /\ InitClient
    /\ pc = [p \in Procs |-> "idle"]
    /\ \E posts \in PostArrays :
         local = [p \in Procs |->
                    IF p = Handler
                    THEN [op |-> "deduplicatePosts", posts |-> posts, once |-> <<>>]
                    ELSE IdleLocal]
    /\ result = [p \in Procs |-> Null]
    /\ hist = [p \in Procs |-> HistInit]

DeduplicateCall(p) ==
    /\ pc[p] = "idle"
    /\ local[p].op = "deduplicatePosts"
    /\ local' = [local EXCEPT ![p].once = deduplicatePosts(local[p].posts)]
    /\ pc' = [pc EXCEPT ![p] = "deduplicated"]
    /\ UNCHANGED <<accessToken, tokenExpiry, now, result, hist>>

DeduplicateAgain(p) ==
    /\ pc[p] = "deduplicated"
    /\ result' = [result EXCEPT ![p] = deduplicatePosts(local[p].once)]
    /\ pc' = [pc EXCEPT ![p] = "done"]
    /\ UNCHANGED <<accessToken, tokenExpiry, now, local, hist>>

NextDedupe ==
    \/ DeduplicateCall(Handler)
    \/ DeduplicateAgain(Handler)

SpecDedupe == InitDedupe /\ [][NextDedupe]_vars

\* C11: deduplicatePosts keeps for each permalink exactly the first post
\* that carries it, in the order of the input, never returns more posts than
\* it was given, and applied to its own result returns that result.
C11_DedupeFirstWins ==
    pc[Handler] = "done" =>
        LET X == local[Handler].posts
            Y == local[Handler].once
            firstAt(link) == CHOOSE i \in 1..Len(X) :
                                 /\ X[i].permalink = link
                                 /\ \A j \in 1..(i - 1) : X[j].permalink # link
        IN  /\ Len(Y) <= Len(X)
            /\ {Y[k].permalink : k \in 1..Len(Y)} = {X[i].permalink : i \in 1..Len(X)}
            /\ \A k, m \in 1..Len(Y) : Y[k].permalink = Y[m].permalink => k = m
            /\ \A k \in 1..Len(Y) : Y[k] = X[firstAt(Y[k].permalink)]
            /\ \A k, m \in 1..Len(Y) :
                   k < m => firstAt(Y[k].permalink) < firstAt(Y[m].permalink)
            /\ result[Handler] = Y

\* an array whose second and third posts repeat the permalink of the first:
\* one post is left, the first
C11_DuplicatesDropped ==
    /\ pc[Handler] = "done"
    /\ local[Handler].posts = <<ToPost(M1), ToPost(M8), ToPost(M8)>>
    /\ result[Handler] = <<ToPost(M1)>>

----------------------------------------------------------------------------
(* Specification of analyzeSentiment over small arrays of posts            *)

\* posts of every score from -2 to 2 and of 4, two of them matching a
\* qualitative rule and the numeric rule of the same fact, one matching a
\* rule twice
SentimentPool ==
    NarrativePool \cup
    { ToPost(M5), ToPost(M6),
      ToPost(Child(<<"TSLA", "15%", "growth">>, <<>>, <<"/s/1">>, 8, 2, "stocks", Recent)),
      ToPost(Child(<<"TSLA", "declining">>, <<"10%", "decline">>, <<"/s/2">>, 7, 7,
                   "investing", Recent)),
      ToPost(Child(<<"TSLA", "upside">>, <<"more", "upside">>, <<"/s/3">>, 9, 1,
                   "stocks", Recent)) }

SentimentArrays ==
    UNION { {c \in [1..n -> SentimentPool] : \A i, j \in 1..n : c[i] = c[j] => i = j}
            : n \in 0..MaxCorpus }

InitSentiment ==
    /\ InitClient
    /\ pc = [p \in Procs |-> "idle"]
    /\ \E posts \in SentimentArrays :
         local = [p \in Procs |->
                    IF p = Handler
                    THEN [op |-> "analyzeSentiment", posts |-> posts, sentiment |-> <<>>]
                    ELSE IdleLocal]
    /\ result = [p \in Procs |-> Null]
    /\ hist = [p \in Procs |-> HistInit]

\* analyzeSentiment(posts): local.sentiment keeps the score that
\* analyzePostSentiment returned for each post of the forEach
AnalyzeSentimentCall(p) ==
    /\ pc[p] = "idle"
    /\ local[p].op = "analyzeSentiment"
    /\ local' = [local EXCEPT ![p].sentiment =
                    [i \in 1..Len(local[p].posts) |-> analyzePostSentiment(local[p].posts[i])]]
    /\ result' = [result EXCEPT ![p] = analyzeSentiment(local[p].posts)]
    /\ pc' = [pc EXCEPT ![p] = "done"]
    /\ UNCHANGED <<accessToken, tokenExpiry, now, hist>>

NextSentiment == AnalyzeSentimentCall(Handler)

SpecSentiment == InitSentiment /\ [][NextSentiment]_vars

\* C12: a post is in the bullish bucket iff its score is above 1, in the
\* bearish bucket iff it is below -1, in the neutral bucket otherwise: the
\* scores 1, 0 and -1 are neutral, 2 is bullish, -2 is bearish.
C12_StrictThresholds ==
    pc[Handler] = "done" =>
        LET posts == local[Handler].posts
            score == local[Handler].sentiment
            data == result[Handler]
            In(post, bucket) == \E k \in 1..Len(bucket) : bucket[k] = post
        IN  \A i \in 1..Len(posts) :
                /\ In(posts[i], data.bullishPosts) <=> score[i] >= 2
                /\ In(posts[i], data.bearishPosts) <=> score[i] <= -2
                /\ In(posts[i], data.neutralPosts) <=> score[i] \in {-1, 0, 1}

\* posts of score 1, -1 and 2: the first two are neutral, the third bullish
C12_BoundaryScores ==
    /\ pc[Handler] = "done"
    /\ local[Handler].sentiment = <<1, -1, 2>>
    /\ Len(result[Handler].neutralPosts) = 2
    /\ Len(result[Handler].bullishPosts) = 1

----------------------------------------------------------------------------
(* Specification of one request to the narrative route whose search       *)
(* requests answer with full pages                                        *)

NextRouteCap ==
    \/ RouteStart(Handler)
    \/ TokenFetchReturn(Handler)
    \/ TokenJsonReturn(Handler, GatherTokenBodies)
    \/ RouteGatherFailed(Handler)
    \/ GatherAfterToken(Handler)
    \/ SearchFetchReturn(Handler)
    \/ SearchJsonReturn(Handler, BigListings)
    \/ RouteAfterGather(Handler)
    \/ RichFetchReturn(Handler)
    \/ RichJsonReturn(Handler)
    \/ NarrowFetchReturn(Handler)
    \/ NarrowJsonReturn(Handler)

SpecRouteCap == InitRoute /\ [][NextRouteCap]_vars

\* C13: the citation list of a gather (SentimentData.sources) and the
\* X-Sources list of the narrative route have at most 10 permalinks, each of
\* a gathered post, in non-increasing order of upvotes + replies, and no
\* gathered post of any bucket that is left out has more upvotes + replies
\* than a cited one.
C13_SourcesRanked ==
    LET data == local[Handler].redditData
        all == AllBuckets(data)
        At(link) == CHOOSE i \in 1..Len(all) : all[i].permalink = link
        Eng(link) == all[At(link)].score + all[At(link)].num_comments
        Ranked(cited) ==
            /\ Len(cited) <= 10
            /\ \A k \in 1..Len(cited) : \E i \in 1..Len(all) : all[i].permalink = cited[k]
            /\ \A k \in 1..(Len(cited) - 1) : Eng(cited[k]) >= Eng(cited[k + 1])
            /\ \A i \in 1..Len(all) :
                 (\A k \in 1..Len(cited) : cited[k] # all[i].permalink)
                     => /\ Len(cited) = 10
                        /\ all[i].score + all[i].num_comments <= Eng(cited[10])
    IN  /\ (pc[Handler] \in {"gather_return", "rich_fetch", "rich_json"})
              => Ranked(data.sources)
        /\ (pc[Handler] = "done" /\ hist[Handler].richOutcome \in {"bullets", "empty"})
              => Ranked(data.sources) /\ Ranked(result[Handler].sources)

\* a route answer that cites ten of more than ten gathered posts, bullish and
\* bearish ones among the cited
C13_TenOfMany ==
    /\ pc[Handler] = "done"
    /\ hist[Handler].richOutcome = "bullets"
    /\ Len(result[Handler].sources) = 10
    /\ Len(local[Handler].redditData.sources) = 10
    /\ Len(AllBuckets(local[Handler].redditData)) > 10
    /\ \E k \in 1..10 : \E i \in 1..Len(local[Handler].redditData.bullishPosts) :
         local[Handler].redditData.bullishPosts[i].permalink = result[Handler].sources[k]
    /\ \E k \in 1..10 : \E i \in 1..Len(local[Handler].redditData.bearishPosts) :
         local[Handler].redditData.bearishPosts[i].permalink = result[Handler].sources[k]


\* C14: every 200 answer of the narrative route carries exactly 5 bullets,
\* whichever tier produced them: more than 5 bullet lines are cut to the
\* first 5, and 1 to 4 bullet lines are filled up to 5.
C14_ExactlyFiveBullets ==
    (pc[Handler] = "done" /\ result[Handler].status = 200)
        => Len(result[Handler].bullets) = 5

----------------------------------------------------------------------------
(* Specification of one request to the narrative route whose caller may   *)
(* abort it while a search request is in flight                           *)

\* the caller aborts its request (controller.abort() of the hooks) while a
\* search is in flight.  GET never reads req.signal and gatherCompanyData
\* takes no signal, so no variable of the handler changes; hist keeps the
\* number of search requests that had settled by then.
ClientAbort(p) ==
    /\ pc[p] = "search_fetch"
    /\ hist[p].cancelledAt = -1
    /\ hist' = [hist EXCEPT ![p].cancelledAt = hist[p].settled]
    /\ UNCHANGED <<accessToken, tokenExpiry, now, pc, local, result>>

NextCancel ==
    \/ RouteStart(Handler)
    \/ TokenFetchReturn(Handler)
    \/ TokenJsonReturn(Handler, GatherTokenBodies)
    \/ RouteGatherFailed(Handler)
    \/ GatherAfterToken(Handler)
    \/ ClientAbort(Handler)
    \/ SearchFetchReturn(Handler)
    \/ SearchJsonReturn(Handler, SmallListings)
    \/ RouteAfterGather(Handler)

SpecCancel == InitRoute /\ [][NextCancel]_vars

\* C15: once the caller has cancelled a gather while a search request was in
\* flight, that request is never settled into the gather, no further search
\* request is issued, and gatherCompanyData never returns a SentimentData.
C15_CancelAbandons ==
    hist[Handler].cancelledAt >= 0 =>
        /\ hist[Handler].settled = hist[Handler].cancelledAt
        /\ pc[Handler] \in {"search_fetch", "search_json"}


\* C16: within one gather the search requests are issued one at a time in
\* the strategy-then-subreddit order: while a request is in flight every
\* earlier pair has settled and the cap is not reached, a request is issued
\* only by the step that settles the previous one (or by the first step of
\* the gather) and is the next pair of the order, and the gather returns
\* only in a step that settles a request.
C16_SequentialSearches ==
    [][ LET S == searchStrategies(Company)
            Index(si, qi) ==
                Cardinality({x \in (1..Len(S)) \X (1..5) :
                                 x[1] < si /\ x[2] <= Len(S[x[1]].subreddits)}) + qi
            InFlight(q) == q \in {"search_fetch", "search_json"}
            l == local[Handler]
            h == hist[Handler]
            l2 == local'[Handler]
            h2 == hist'[Handler]
            Issued == /\ pc'[Handler] = "search_fetch"
                      /\ (pc[Handler] # "search_fetch" \/ l2 # l)
            Returned == /\ pc'[Handler] = "gather_return"
                        /\ pc[Handler] # "gather_return"
        IN  /\ InFlight(pc'[Handler]) =>
                 /\ h2.settled = Index(l2.si, l2.qi) - 1
                 /\ ~CapReached(l2.allPosts)
            /\ pc'[Handler] = "gather_return" =>
                 /\ h2.settled = Index(l2.si, l2.qi)
                 /\ \/ CapReached(l2.allPosts)
                    \/ /\ l2.si = Len(S)
                       /\ l2.qi = Len(S[l2.si].subreddits)
            /\ Issued =>
                 \/ /\ pc[Handler] = "token_return"
                    /\ l2.si = 1
                    /\ l2.qi = 1
                 \/ /\ InFlight(pc[Handler])
                    /\ h2.settled = h.settled + 1
                    /\ Index(l2.si, l2.qi) = Index(l.si, l.qi) + 1
                    /\ l2.qi <= Len(S[l2.si].subreddits)
            /\ Returned =>
                 /\ InFlight(pc[Handler])
                 /\ h2.settled = h.settled + 1 ]_vars

\* the gather returned on the cap in the step that settled its second request
C16_StoppedAtCap ==
    /\ pc[Handler] = "gather_return"
    /\ CapReached(local[Handler].allPosts)
    /\ local[Handler].si = 1
    /\ local[Handler].qi = 2
    /\ hist[Handler].settled = 2

----------------------------------------------------------------------------
(* NarrativeFinancialComparison: calculateDivergence                      *)

\* `if (score < 30) ... else if (score < 60) ... else`
DivergenceLevel_Inclusive(score) ==
    IF score <= 30 THEN "low" ELSE IF score <= 60 THEN "medium" ELSE "high"
DivergenceLevel(score) ==
    IF score < 30 THEN "low" ELSE IF score < 60 THEN "medium" ELSE "high"

\* calculateDivergence over the narratives and the three lists of the
\* financial data, each a sequence of texts.  A sentiment is the fraction
\* num/den; Math.round rounds a half up.  The key points depend on neither
\* the score nor the level and are left out.
calculateDivergence(narratives, financialData) ==
    LET Join(texts) ==
            LET RECURSIVE J(_)
                J(i) == IF i > Len(texts) THEN <<>> ELSE texts[i] \o J(i + 1)
            IN  J(1)
        allNarratives == ToLowerCase(Join(narratives))
        allFinancials ==
            ToLowerCase(Join(financialData.fundamentals \o financialData.risks
                             \o financialData.trends))
        positiveTerms ==
            << "growth", "profit", "increase", "success", "positive", "strong",
               "innovation", "beat", "exceed", "outperform", "surge", "rising",
               "momentum", "bullish" >>
        negativeTerms ==
            << "decline", "loss", "decrease", "failure", "negative", "weak",
               "problem", "miss", "below", "underperform", "drop", "falling",
               "slowdown", "bearish" >>
        Count(terms, text) ==
            Cardinality({i \in 1..Len(terms) : Includes(text, <<terms[i]>>)})
        Sentiment(pos, neg) ==
            IF pos + neg > 0 THEN [num |-> pos - neg, den |-> pos + neg]
            ELSE [num |-> 0, den |-> 1]
        narrativeSentiment ==
            Sentiment(Count(positiveTerms, allNarratives),
                      Count(negativeTerms, allNarratives))
        financialSentiment ==
            Sentiment(Count(positiveTerms, allFinancials),
                      Count(negativeTerms, allFinancials))
        diff == narrativeSentiment.num * financialSentiment.den
                    - financialSentiment.num * narrativeSentiment.den
        den == narrativeSentiment.den * financialSentiment.den
        sentimentDivergence == [num |-> IF diff < 0 THEN -diff ELSE diff, den |-> den]
        rounded == (200 * sentimentDivergence.num + sentimentDivergence.den)
                       \div (2 * sentimentDivergence.den)
        score == IF rounded < 100 THEN rounded ELSE 100
    IN  [score |-> score, divergence |-> DivergenceLevel(score)]

\* texts with the first pos positive and the first neg negative terms of
\* the component's catalogs, the first of each twice
DivergenceTexts ==
    LET positive == <<"growth", "profit", "strong", "beat", "surge">>
        negative == <<"decline", "loss", "weak", "miss", "drop">>
        Part(words, n) ==
            IF n = 0 THEN <<"revenue">> ELSE <<words[1]>> \o SubSeq(words, 1, n)
    IN  { <<Part(positive, pos), Part(negative, neg)>> :
              pos \in 0..MaxTerms, neg \in 0..MaxTerms }

InitDivergence ==
    /\ InitClient
    /\ pc = [p \in Procs |-> "idle"]
    /\ \E narratives \in DivergenceTexts, financials \in DivergenceTexts :
         local = [p \in Procs |->
                    IF p = Handler
                    THEN [op |-> "calculateDivergence", narratives |-> narratives,
                          financialData |-> [fundamentals |-> <<financials[1]>>,
                                             risks |-> <<financials[2]>>,
                                             trends |-> <<>>]]
                    ELSE IdleLocal]
    /\ result = [p \in Procs |-> Null]
    /\ hist = [p \in Procs |-> HistInit]

\* setComparison(calculateDivergence())
CalculateDivergenceCall(p) ==
    /\ pc[p] = "idle"
    /\ local[p].op = "calculateDivergence"
    /\ result' = [result EXCEPT ![p] =
                     calculateDivergence(local[p].narratives, local[p].financialData)]
    /\ pc' = [pc EXCEPT ![p] = "done"]
    /\ UNCHANGED <<accessToken, tokenExpiry, now, local, hist>>

NextDivergence == CalculateDivergenceCall(Handler)

SpecDivergence == InitDivergence /\ [][NextDivergence]_vars

\* C17: the divergence score is an integer from 0 to 100, and the level is
\* low for a score below 30, medium from 30 to 59, high from 60 on: the
\* scores 30 and 60 are medium and high.
C17_ScoreAndLevel ==
    pc[Handler] = "done" =>
        LET score == result[Handler].score
            level == result[Handler].divergence
        IN  /\ score \in 0..100
            /\ level = "low" <=> score \in 0..29
            /\ level = "medium" <=> score \in 30..59
            /\ level = "high" <=> score \in 60..100

\* sentiments 1/2 and 1/5: the score is 30 and the level is medium
C17_ThirtyIsMedium ==
    /\ pc[Handler] = "done"
    /\ result[Handler].score = 30
    /\ result[Handler].divergence = "medium"


\* C18: the posts a gather classifies are the accumulated posts deduplicated
\* by permalink first, then ranked and cut to 150: no two of them share a
\* permalink, they are as many as the accumulated posts have permalinks (150
\* at most), and every permalink left out belongs to a post with no more
\* upvotes + replies than any post kept.
C18_DedupeBeforeTruncation ==
    pc[Handler] = "gather_return" =>
        LET allPosts == local[Handler].allPosts
            top == AllBuckets(local[Handler].redditData)
            links == {allPosts[i].permalink : i \in 1..Len(allPosts)}
            kept == {top[k].permalink : k \in 1..Len(top)}
            lowest == IF top = <<>> THEN 0
                      ELSE -MaxOf({-Engagement(top[k]) : k \in 1..Len(top)})
        IN  /\ \A j, k \in 1..Len(top) : top[j].permalink = top[k].permalink => j = k
            /\ kept \subseteq links
            /\ Len(top) = IF Cardinality(links) < 150 THEN Cardinality(links) ELSE 150
            /\ \A i \in 1..Len(allPosts) :
                 allPosts[i].permalink \notin kept => Engagement(allPosts[i]) <= lowest

\* 200 accumulated posts with 190 permalinks: 150 posts are kept
C18_DuplicatesAndTruncation ==
    /\ pc[Handler] = "gather_return"
    /\ Len(local[Handler].allPosts) = 200
    /\ Cardinality({local[Handler].allPosts[i].permalink : i \in 1..200}) = 190
    /\ Len(AllBuckets(local[Handler].redditData)) = 150

----------------------------------------------------------------------------
(* Specification of two searchCompany calls on one client, interleaved at *)
(* their awaits                                                           *)

\* the listings the search requests of a call are answered with: the two
\* calls are sent different posts
OwnListings(p) ==
    IF p = Handler THEN { <<M1, M3>> } ELSE { <<BigA[6]>> }

NextConcurrent ==
    \E p \in Procs :
        \/ SearchCompanyStart(p)
        \/ TokenFetchReturn(p)
        \/ TokenJsonReturn(p, GatherTokenBodies)
        \/ SearchCompanyTokenFailed(p)
        \/ GatherAfterToken(p)
        \/ SearchFetchReturn(p)
        \/ SearchJsonReturn(p, OwnListings(p))
        \/ SearchCompanyAfterGather(p)

SpecConcurrent == InitToken /\ [][NextConcurrent]_vars

\* C19: of two gathers interleaved on one client, every post a gather
\* accumulates, classifies or returns was returned by one of its own search
\* requests, and a step of one gather changes nothing of the other: not its
\* position, not its locals, not its result.
C19_RequestStateIsolated ==
    [][ LET Own(p) == UNION { {ToPost(c[i]).permalink : i \in 1..Len(c)} : c \in OwnListings(p) }
            AllOwn(p, posts) == \A i \in 1..Len(posts) : posts[i].permalink \in Own(p)
        IN  \A p \in Procs :
              /\ pc'[p] \in {"search_fetch", "search_json", "gather_return"}
                    => AllOwn(p, local'[p].allPosts)
              /\ pc'[p] = "gather_return"
                    => AllOwn(p, AllBuckets(local'[p].redditData))
              /\ (pc'[p] = "done" /\ hist'[p].searched)
                    => AllOwn(p, result'[p])
              /\ \A q \in Procs \ {p} :
                    <<pc'[p], local'[p], result'[p]>> # <<pc[p], local[p], result[p]>>
                        => <<pc'[q], local'[q], result'[q]>> = <<pc[q], local[q], result[q]>>
      ]_vars

\* both calls returned posts, each its own
C19_BothReturned ==
    /\ \A p \in Procs : pc[p] = "done" /\ hist[p].searched /\ Len(result[p]) > 0
    /\ result["c1"][1] = ToPost(M1)
    /\ result["c2"][1] = ToPost(BigA[6])


\* C20: the score of a post is the sum of the weights of the rules of both
\* catalogs that match its lower-cased title and body, a rule counted once
\* however often it matches; the numeric rules add to the qualitative ones:
\* a text that matches only 'growth' and 'N% growth' scores 2, one that
\* matches only 'declining' and 'N% decline' scores -2.
C20_ScoreIsSumOfWeights ==
    pc[Handler] = "done" /\ local[Handler].op = "analyzeSentiment" =>
        \A i \in 1..Len(local[Handler].posts) :
            LET text == ToLowerCase(PostText(local[Handler].posts[i]))
                score == local[Handler].sentiment[i]
                Matching(patterns) ==
                    {k \in 1..Len(patterns) :
                        \E ph \in patterns[k].phrases : Includes(text, ph)}
                N(patterns, w) ==
                    Cardinality({k \in Matching(patterns) : patterns[k].score = w})
                Weight(patterns) ==
                    3 * N(patterns, 3) + 2 * N(patterns, 2) + N(patterns, 1)
                    - N(patterns, -1) - 2 * N(patterns, -2) - 3 * N(patterns, -3)
                Only(word, metric) ==
                    /\ Includes(text, <<word>>)
                    /\ \E n \in Percents : Includes(text, <<n, metric>>)
                    /\ Cardinality(Matching(sentimentPatterns)) = 1
                    /\ Cardinality(Matching(metricPatterns)) = 1
            IN  /\ score = Weight(sentimentPatterns) + Weight(metricPatterns)
                /\ text = <<"tsla", "upside", "more", "upside">> => score = 1
                /\ Only("growth", "growth") => score = 2
                /\ Only("declining", "decline") => score = -2

\* a post that says '15% growth' scored 2 and one that says 'declining' and
\* '10% decline' scored -2
C20_CountedTwice ==
    /\ pc[Handler] = "done"
    /\ local[Handler].op = "analyzeSentiment"
    /\ Len(local[Handler].posts) = 2
    /\ local[Handler].posts[1].title = <<"TSLA", "15%", "growth">>
    /\ local[Handler].posts[2].title = <<"TSLA", "declining">>
    /\ local[Handler].posts[2].selftext = <<"10%", "decline">>
    /\ local[Handler].sentiment = <<2, -2>>


----------------------------------------------------------------------------
(* Properties of the bullets of generateNarrative (SpecNarrative) *)

\* C21: the divisor of the engagement ratio in the sentiment bullet is the
\* bearish engagement sum floored at 1: it is max(bearish sum, 1) and never
\* below 1, also when the bearish sum is 0 or negative.
C21_DivisorFlooredAtOne ==
    (pc[Handler] = "done" /\ local[Handler].op = "generateNarrative"
        /\ result[Handler][1].kind = "sentiment") =>
        LET bearish == SumEngagement(local[Handler].data.bearishPosts, 1)
            divisor == result[Handler][1].engagementRatio[2]
        IN  /\ divisor >= 1
            /\ divisor = IF bearish > 1 THEN bearish ELSE 1


\* C22: the lean of the topic bullet is the sign of the sum, over the posts
\* that match a pattern of the top topic, of +1 for a bullish and -1 for a
\* bearish post, each post counted once.  The posts of the modelled corpora
\* match no topic but Earnings.
C22_LeanCountsDocuments ==
    (pc[Handler] = "done" /\ local[Handler].op = "generateNarrative"
        /\ Len(result[Handler]) >= 2 /\ result[Handler][2].kind = "topic"
        /\ result[Handler][2].topic = "Earnings") =>
        LET d == local[Handler].data
            Matches(post) ==
                \E ph \in {<<"earnings", "15%">>, <<"earnings", "$2">>, <<"eps", "$2">>,
                           <<"eps", "$1">>} :
                    Includes(ToLowerCase(PostText(post)), ph)
            Of(posts) == Cardinality({i \in 1..Len(posts) : Matches(posts[i])})
            sum == Of(d.bullishPosts) - Of(d.bearishPosts)
        IN  result[Handler][2].sentiment =
                IF sum > 0 THEN "bullish" ELSE IF sum < 0 THEN "bearish" ELSE "mixed"

----------------------------------------------------------------------------
(* Specification of generateUniqueInsight over corpora of posts about     *)
(* options, competitors, price levels and insiders                        *)

\* the corpus with the given number of posts of each kind, and its counts
InsightCorpus(n) ==
    LET Of(count, tag, title) ==
            [i \in 1..count |-> ToPost(Child(title, <<>>, <<tag, i>>, 6, 2, "stocks", Recent))]
    IN  Of(n.calls, "/c/", <<"TSLA", "$200", "calls">>)
        \o Of(n.puts, "/u/", <<"TSLA", "$150", "Puts">>)
        \o Of(n.both, "/b/", <<"TSLA", "$200", "call", "$150", "put">>)
        \o Of(n.bulls, "/l/", <<"TSLA", "undervalued">>)
        \o (IF n.rival = "none" THEN <<>> ELSE Of(1, "/v/", <<"TSLA", "vs", n.rival>>))
        \o Of(n.levels, "/t/", <<"TSLA", "support", "at", "$180">>)
        \o Of(n.insiders, "/i/", <<"TSLA", "insider", "buying">>)

InitInsight ==
    /\ InitClient
    /\ pc = [p \in Procs |-> "idle"]
    /\ \E n \in [calls : 0..MaxMentions, puts : 0..MaxMentions, both : 0..1,
                 bulls : {0, MaxMentions}, rival : {"none", "GM", "Ford"},
                 levels : 0..1, insiders : 0..1] :
         local = [p \in Procs |->
                    IF p = Handler
                    THEN [op |-> "generateUniqueInsight", posts |-> n,
                          data |-> analyzeSentiment(InsightCorpus(n))]
                    ELSE IdleLocal]
    /\ result = [p \in Procs |-> Null]
    /\ hist = [p \in Procs |-> HistInit]

GenerateUniqueInsightCall(p) ==
    /\ pc[p] = "idle"
    /\ local[p].op = "generateUniqueInsight"
    /\ result' = [result EXCEPT ![p] = generateUniqueInsight(local[p].data)]
    /\ pc' = [pc EXCEPT ![p] = "done"]
    /\ UNCHANGED <<accessToken, tokenExpiry, now, local, hist>>

NextInsight == GenerateUniqueInsightCall(Handler)

SpecInsight == InitInsight /\ [][NextInsight]_vars

\* C23: generateUniqueInsight returns the sentence of the first tier that
\* produces one, in the order option activity, competitor comparison,
\* technical level, institutional activity, momentum, and it always returns
\* a sentence.
C23_FirstTierThatSpeaks ==
    (pc[Handler] = "done" /\ local[Handler].op = "generateUniqueInsight") =>
        LET n == local[Handler].posts
            speaks == [option |-> n.calls + n.puts + 2 * n.both >= 5,
                       comparison |-> n.rival = "Ford",
                       technical |-> n.levels > 0,
                       institutional |-> n.insiders > 0,
                       momentum |-> TRUE]
            order == <<"option", "comparison", "technical", "institutional", "momentum">>
            first == CHOOSE k \in 1..5 : speaks[order[k]] /\ \A j \in 1..(k - 1) : ~speaks[order[j]]
        IN  /\ result[Handler].tier # "none"
            /\ result[Handler].tier = order[first]

\* a corpus with a level and an insider post but no option or competitor
\* sentence: the technical sentence is returned
C23_ThirdTier ==
    /\ pc[Handler] = "done"
    /\ local[Handler].op = "generateUniqueInsight"
    /\ local[Handler].posts.levels = 1
    /\ local[Handler].posts.insiders = 1
    /\ local[Handler].posts.rival = "GM"
    /\ local[Handler].posts.calls = 4
    /\ result[Handler].tier = "technical"

\* C24: the option insight is produced iff call posts + put posts >= 5; it
\* reads bullish positioning iff calls > 2 * max(puts, 1), hedging iff
\* calls < max(puts, 1) / 2, uncertainty otherwise.
C24_OptionInsight ==
    (pc[Handler] = "done" /\ local[Handler].op = "generateUniqueInsight") =>
        LET n == local[Handler].posts
            calls == n.calls + n.both
            puts == n.puts + n.both
            r == result[Handler]
        IN  /\ r.tier = "option" <=> calls + puts >= 5
            /\ r.tier = "option" =>
                 /\ r.calls = calls
                 /\ r.puts = puts
                 /\ r.reading = "bullish positioning" <=>
                        (IF puts = 0 THEN calls > 2 ELSE calls > 2 * puts)
                 /\ r.reading = "hedging" <=>
                        (IF puts = 0 THEN FALSE ELSE 2 * calls < puts)
                 /\ (calls = 5 /\ puts = 0) => r.reading = "bullish positioning"
                 /\ (calls = 0 /\ puts = 5) => r.reading = "hedging"
                 /\ (calls = 4 /\ puts = 2) => r.reading = "uncertainty"

\* 4 call posts and 2 put posts read as uncertainty
C24_FourToTwo ==
    /\ pc[Handler] = "done"
    /\ local[Handler].op = "generateUniqueInsight"
    /\ result[Handler].tier = "option"
    /\ result[Handler].calls = 4
    /\ result[Handler].puts = 2
    /\ result[Handler].reading = "uncertainty"


\* C26: a 200 answer made of the static 'insufficient data' bullets carries
\* no X-Sources header, on every path to the static tier (the header is set
\* from the handler's sources list when it is not empty).
C26_StaticHasNoSources ==
    (/\ pc[Handler] = "done"
     /\ result[Handler].status = 200
     /\ result[Handler].bullets = StaticBullets(local[Handler].company))
        => Len(local[Handler].sources) = 0


\* C29: after a gatherCompanyData the bullish, bearish and neutral buckets
\* partition the classified posts: every kept permalink is in exactly one
\* bucket (the one of its score) and occurs there once, the buckets hold at
\* most 150 posts together, and each bucket is in non-increasing order of
\* upvotes + replies.
C29_BucketsPartition ==
    pc[Handler] = "gather_return" =>
        LET data == local[Handler].redditData
            allPosts == local[Handler].allPosts
            buckets == <<data.bullishPosts, data.bearishPosts, data.neutralPosts>>
            links == {allPosts[i].permalink : i \in 1..Len(allPosts)}
            Places(link) == {<<b, k>> \in (1..3) \X (1..150) :
                                k <= Len(buckets[b]) /\ buckets[b][k].permalink = link}
            held == Len(buckets[1]) + Len(buckets[2]) + Len(buckets[3])
        IN  /\ held <= 150
            /\ held = IF Cardinality(links) < 150 THEN Cardinality(links) ELSE 150
            /\ \A b \in 1..3 : Len(buckets[b]) <= 150
            /\ \A link \in links : Cardinality(Places(link)) <= 1
            /\ \A b \in 1..3 : \A k \in 1..Len(buckets[b]) :
                 LET score == analyzePostSentiment(buckets[b][k])
                 IN  /\ Cardinality(Places(buckets[b][k].permalink)) = 1
                     /\ b = 1 <=> score > 1
                     /\ b = 2 <=> score < -1
                     /\ k > 1 => Engagement(buckets[b][k - 1]) >= Engagement(buckets[b][k])

\* 150 posts kept out of more, spread over the three buckets
C29_ThreeBucketsOfMany ==
    /\ pc[Handler] = "gather_return"
    /\ Len(local[Handler].redditData.bullishPosts) > 1
    /\ Len(local[Handler].redditData.bearishPosts) > 1
    /\ Len(local[Handler].redditData.neutralPosts) > 1
    /\ Len(AllBuckets(local[Handler].redditData)) = 150
    /\ Len(local[Handler].allPosts) > 150


----------------------------------------------------------------------------
(* Properties of concurrent getAccessToken calls (SpecToken) *)

\* C30: of getAccessToken calls interleaved on one client, each call whose
\* exchange succeeds returns the credential of the response it received
\* itself, and the cached credential and the cached expiry only change
\* together, both taken from that one response: the cache never pairs the
\* credential of one response with the expiry of another.
C30_PairFromOneResponse ==
    [][ /\ \A p \in Procs :
            (pc[p] = "token_json" /\ pc'[p] = "token_return") =>
                LET data == hist'[p].response
                IN  /\ data \in TokenBodies
                    /\ accessToken' = data.access_token
                    /\ tokenExpiry' = now + data.expires_in
                    /\ local'[p].token = IF data.access_token \in Tokens
                                         THEN data.access_token ELSE ""
        /\ (accessToken' # accessToken \/ tokenExpiry' # tokenExpiry) =>
              \E p \in Procs : pc[p] = "token_json" /\ pc'[p] = "token_return"
      ]_vars

\* two calls each issued an exchange while the other's was in flight and
\* hold different credentials; the cache holds the later one
C30_TwoExchangesRaced ==
    /\ \A p \in Procs : pc[p] = "token_return" /\ hist[p].exchanges = 1
    /\ local["c1"].token \in Tokens
    /\ local["c2"].token \in Tokens
    /\ local["c1"].token # local["c2"].token
    /\ accessToken = local["c2"].token


----------------------------------------------------------------------------
(* Streaming narrative hook: useNarrativeStream of lib/useNarrativeStream  *)
(* (the variant that parses bullets).  `result` is what the hook returns   *)
(* to the component; the processes are the runs of the [company] effect,   *)
(* c1 for the first company and c2 for the company it is changed to.       *)

\* events in one response stream
MaxLines == 2

\* The text of the stream is a sequence of pieces, a chunk boundary may fall
\* between any two of them: a newline, the `data:` prefix, the JSON of a
\* chunk up to its last brace (delta holds choices[0].delta.content), the
\* closing brace with or without a finish_reason before it, `[DONE]`.
Piece(t, delta) == [t |-> t, delta |-> delta]
Newline == Piece("nl", <<>>)

\* delta contents: text pieces and "\n"
Deltas ==
    { <<"*", "Alpha", "\n">>,
      <<"-", "Beta", "[src](url)", "\n">>,
      <<"*", "Gamma", "\n", "*", "Delta", "\n", "1.", "\n", "*", "Eps", "\n">> }

StreamEvents ==
    {<<Piece("data:", <<>>), Piece("json", d), Piece("}", <<>>)>> : d \in Deltas}
    \cup {<<Piece("data:", <<>>), Piece("json", <<"*", "Alpha", "\n">>), Piece("stop}", <<>>)>>,
          <<Piece("data:", <<>>), Piece("[DONE]", <<>>)>>}

\* the events, each followed by a blank line, the last one followed by one
\* only if the stream is terminated
StreamOf(events, terminated) ==
    LET RECURSIVE Join(_)
        Join(k) == IF k > Len(events) THEN <<>>
                   ELSE events[k]
                        \o (IF k < Len(events) \/ terminated
                            THEN <<Newline, Newline>> ELSE <<>>)
                        \o Join(k + 1)
    IN  Join(1)

Streams ==
    {StreamOf(es, tm) : es \in UNION {[1..n -> StreamEvents] : n \in 0..MaxLines},
                        tm \in BOOLEAN}

\* String.prototype.split at a separator piece: never empty, the last
\* element is what follows the last separator
SplitAt(text, sep) ==
    LET RECURSIVE Split(_, _)
        Split(k, line) ==
            IF k > Len(text) THEN <<line>>
            ELSE IF text[k] = sep THEN <<line>> \o Split(k + 1, <<>>)
            ELSE Split(k + 1, Append(line, text[k]))
    IN  Split(1, <<>>)

\* the bullets effect: the lines of rawContent without their markers, with
\* the first markdown link of each as its source; the first 5, filled up to
\* 5 with placeholders once isDone
Placeholder == [text |-> <<"Information not available">>, source |-> <<>>,
                raw |-> <<"Information not available">>]

parseBullets(rawContent, isDone) ==
    LET Markers == {"-", "*", "1."}
        Links == {"[src](url)"}
        lines == SelectSeq(SplitAt(rawContent, "\n"), LAMBDA line : Len(line) > 0)
        RECURSIVE Clean(_)
        Clean(line) == IF line # <<>> /\ Head(line) \in Markers THEN Clean(Tail(line))
                       ELSE line
        Bullet(cleanLine) ==
            LET at == {k \in 1..Len(cleanLine) : cleanLine[k] \in Links}
                first == CHOOSE k \in at : \A j \in at : k <= j
                textBeforeLink == SubSeq(cleanLine, 1, first - 1)
            IN  IF at # {}
                THEN [text |-> IF textBeforeLink # <<>> THEN textBeforeLink ELSE cleanLine,
                      source |-> <<"src", "url">>, raw |-> cleanLine]
                ELSE [text |-> cleanLine, source |-> <<>>, raw |-> cleanLine]
        RECURSIVE Extract(_)
        Extract(k) ==
            IF k > Len(lines) THEN <<>>
            ELSE IF Clean(lines[k]) = <<>> THEN Extract(k + 1)
            ELSE <<Bullet(Clean(lines[k]))>> \o Extract(k + 1)
        limitedBullets == Slice0(Extract(1), 5)
    IN  IF isDone /\ Len(limitedBullets) < 5
        THEN limitedBullets \o [k \in 1..(5 - Len(limitedBullets)) |-> Placeholder]
        ELSE limitedBullets

\* the state the hook returns after the updates of one step: the bullets
\* effect runs when rawContent or isDone changed and returns at once when
\* rawContent is empty
AfterRender(prev, next) ==
    IF next.rawContent = prev.rawContent /\ next.isDone = prev.isDone THEN next
    ELSE IF next.rawContent = <<>> THEN next
    ELSE [next EXCEPT !.bulletPoints = parseBullets(next.rawContent, next.isDone)]

\* one complete line of the buffer, applied to the state
ProcessLine(state, line) ==
    IF line = <<>> \/ Head(line).t # "data:" THEN state
    ELSE LET data == Tail(line)
         IN  IF data = <<Piece("[DONE]", <<>>)>>
             THEN [state EXCEPT !.isDone = TRUE, !.isLoading = FALSE]
             ELSE IF Len(data) = 2 /\ data[1].t = "json" /\ data[2].t \in {"}", "stop}"}
             THEN LET withContent ==
                          IF data[1].delta # <<>>
                          THEN [state EXCEPT !.rawContent = @ \o data[1].delta]
                          ELSE state
                  IN  IF data[2].t = "stop}"
                      THEN [withContent EXCEPT !.isDone = TRUE, !.isLoading = FALSE]
                      ELSE withContent
             \* JSON.parse throws: the line is skipped
             ELSE state

ProcessLines(state, lines) ==
    LET RECURSIVE Go(_, _)
        Go(s, k) == IF k > Len(lines) THEN s ELSE Go(ProcessLine(s, lines[k]), k + 1)
    IN  Go(state, 1)

HookIdle == [op |-> "processStream", company |-> "none", aborted |-> FALSE,
             stream |-> <<>>, read |-> 0, buffer |-> <<>>, marked |-> FALSE]

InitHook ==
    /\ InitClient
    /\ pc = [p \in Procs |-> "idle"]
    /\ local = [p \in Procs |-> HookIdle]
    /\ result = [company |-> "none", rawContent |-> <<>>, bulletPoints |-> <<>>,
                 isLoading |-> FALSE, isDone |-> FALSE, error |-> "null"]
    /\ hist = [p \in Procs |-> HistInit]

\* the company prop is set or changed: the cleanup of the previous run of
\* the effect aborts its controller, the new run resets the state and calls
\* processStream, which runs up to its fetch.  The reader and the buffer of
\* an aborted run are read by nothing any more and are dropped.
CompanyEffect(p, company) ==
    /\ pc[p] = "idle"
    /\ \A q \in Procs \ {p} : (p = Handler) = (pc[q] = "idle")
    /\ company # result.company
    /\ pc' = [pc EXCEPT ![p] = "fetch"]
    /\ local' = [q \in Procs |->
                    IF q = p THEN [HookIdle EXCEPT !.company = company]
                    ELSE [HookIdle EXCEPT !.company = local[q].company,
                                          !.aborted = (pc[q] # "idle")]]
    /\ result' = AfterRender(result,
                    [company |-> company, rawContent |-> <<>>, bulletPoints |-> <<>>,
                     isLoading |-> TRUE, isDone |-> FALSE, error |-> "null"])
    /\ UNCHANGED <<accessToken, tokenExpiry, now, hist>>

\* the catch of processStream
StreamCatch(p, name, message) ==
    /\ pc' = [pc EXCEPT ![p] = "ended"]
    /\ local' = [local EXCEPT ![p] = [HookIdle EXCEPT !.company = local[p].company,
                                                      !.aborted = local[p].aborted]]
    /\ result' = AfterRender(result,
                    [result EXCEPT !.error = IF name # "AbortError" THEN message ELSE @,
                                   !.isLoading = FALSE, !.isDone = TRUE])

\* the pending fetch or read of an aborted run rejects
AbortRejection(p) ==
    /\ pc[p] \in {"fetch", "read"}
    /\ local[p].aborted
    /\ StreamCatch(p, "AbortError", "aborted")
    /\ UNCHANGED <<accessToken, tokenExpiry, now, hist>>

\* await fetch(/api/narrative/stream) settles
StreamFetchReturn(p) ==
    /\ pc[p] = "fetch"
    /\ ~local[p].aborted
    /\ \/ StreamCatch(p, "TypeError", "fetch failed")
       \/ StreamCatch(p, "Error", "HTTP error 500")
       \/ \E s \in Streams :
            /\ pc' = [pc EXCEPT ![p] = "read"]
            /\ local' = [local EXCEPT ![p].stream = s]
            /\ UNCHANGED result
    /\ UNCHANGED <<accessToken, tokenExpiry, now, hist>>

\* await reader.read() settles with a chunk, with done, or rejects
StreamRead(p) ==
    /\ pc[p] = "read"
    /\ ~local[p].aborted
    /\ LET l == local[p]
           left == Len(l.stream) - l.read
       IN  \/ /\ left > 0
              /\ StreamCatch(p, "TypeError", "network error")
           \/ /\ left = 0
              /\ pc' = [pc EXCEPT ![p] = "ended"]
              /\ local' = [local EXCEPT ![p].marked = TRUE]
              /\ result' = AfterRender(result,
                              [result EXCEPT !.isDone = TRUE, !.isLoading = FALSE])
           \/ \E n \in 1..left :
                LET chunk == SubSeq(l.stream, l.read + 1, l.read + n)
                    lines == SplitAt(l.buffer \o chunk, Newline)
                    complete == SubSeq(lines, 1, Len(lines) - 1)
                    next == ProcessLines(result, complete)
                IN  /\ local' = [local EXCEPT ![p].read = @ + n,
                                              ![p].buffer = lines[Len(lines)],
                                              ![p].marked = @ \/ next.isDone]
                    /\ result' = AfterRender(result, next)
                    /\ UNCHANGED pc
    /\ UNCHANGED <<accessToken, tokenExpiry, now, hist>>

NextHook ==
    \/ \E company \in {"TSLA", "AAPL"} : CompanyEffect("c1", company)
    \/ \E company \in {"TSLA", "AAPL"} : CompanyEffect("c2", company)
    \/ \E p \in Procs : AbortRejection(p)
    \/ \E p \in Procs : StreamFetchReturn(p)
    \/ \E p \in Procs : StreamRead(p)

SpecHook == InitHook /\ [][NextHook]_vars

\* C25: the bullet list of the hook never has more than 5 entries, and
\* whenever the stream of the current company has completed without an
\* error (isDone true) it has exactly 5, lists of fewer parsed bullets
\* being filled with 'Information not available' entries without a source,
\* also when the stream completed without any content.
C25_FiveBulletsWhenDone ==
    /\ Len(result.bulletPoints) <= 5
    /\ (/\ result.isDone
        /\ result.error = "null"
        /\ \E p \in Procs : local[p].company = result.company /\ local[p].marked) =>
         /\ Len(result.bulletPoints) = 5
         /\ \A k \in 1..5 :
              result.bulletPoints[k].text = <<"Information not available">>
                  => result.bulletPoints[k].source = <<>>

\* C27: after the company changed, while the request of the new company is
\* in flight and its stream has neither ended, failed nor been marked
\* finished, isLoading is true and isDone is false, whatever the aborted
\* request of the old company does.
C27_NewRequestStaysLoading ==
    (pc["c2"] \in {"fetch", "read"} /\ ~local["c2"].marked)
        => (result.isLoading /\ ~result.isDone)

\* C28: when the stream has ended, rawContent is the concatenation, in
\* order, of the delta contents of all the data lines of the stream,
\* however the stream was cut into chunks and whether or not its last line
\* ends with a newline.
C28_AllDataLinesOnce ==
    \A p \in Procs :
        (pc[p] = "ended" /\ local[p].read = Len(local[p].stream)
            /\ local[p].company = result.company /\ result.error = "null"
            /\ local[p].stream # <<>>)
            => LET all == SplitAt(local[p].stream, Newline)
                   RECURSIVE Contents(_)
                   Contents(k) ==
                       IF k > Len(all) THEN <<>>
                       ELSE (IF Len(all[k]) = 3 /\ all[k][2].t = "json"
                             THEN all[k][2].delta ELSE <<>>) \o Contents(k + 1)
               IN  result.rawContent = Contents(1)

====
